---- MODULE Spec2Model ----
(***************************************************************************)
(* SensorIoT REST server: the anomaly-training pipeline of                 *)
(* anomaly_training.py (Value Normalizer, Bucket Selector, Feature         *)
(* Aligner, Trainer/Selector, Model Store, train_for_gateway).             *)
(*                                                                         *)
(* Conventions.  A Python str is a sequence of one-character strings, so   *)
(* that replace(), float(), '+' and sorted() are modelled by what they do. *)
(* A Python float is an integer count of thousandths; NaN is a value of    *)
(* its own.  A median is carried doubled (np.median of an even number of   *)
(* gaps is a half-integer).                                                *)
(***************************************************************************)
EXTENDS Integers, Sequences, FiniteSets, TLC

VARIABLES
    db,        \* db.Sensors: the stored readings, in natural (query) order
    now,       \* time.time() of the host, whole seconds
    store,     \* the Model Store: per gateway, its directory and two files
    runs,      \* train_for_gateway invocations so far
    run,       \* the last train_for_gateway invocation: its locals and outcome
    saver,     \* the save_model call in progress, step by step
    loader,    \* the load_model / model_exists call in progress or last returned
    history,   \* the save_model calls made so far, in call order
    scorer,    \* the last predict_anomalies call: its arguments and outcome
    env,            \* the process environment read when auth.py is imported
    OAUTH_CODES,    \* app_state.OAUTH_CODES
    OAUTH_TOKENS,   \* app_state.OAUTH_TOKENS
    MOCK_DEVICES,   \* app_state.MOCK_DEVICES, the state of each device
    mongo,          \* the collections app_state points at
    http,           \* the last request handled and its response
    archiver,  \* the archivedb run: its options, position, file and outcome
    np_random, \* numpy's process-wide generator (np.random)
    trainers,  \* the train_and_select_best call of each thread
    detector,  \* one detector object: its fit state and its last call
    query      \* the last getdatausinggw call: its result set and outcome

trainVars == <<db, now, store, runs, run>>
storeVars == <<saver, loader, history>>
scoreVars == <<scorer>>
webVars == <<env, OAUTH_CODES, OAUTH_TOKENS, MOCK_DEVICES, mongo, http>>
archiveVars == <<archiver>>
fitVars == <<np_random, trainers>>
detectorVars == <<detector>>
queryVars == <<query>>
offStore == <<scoreVars, webVars, archiveVars, fitVars, detectorVars, queryVars>>
offScore == <<trainVars, storeVars, webVars, archiveVars, fitVars, detectorVars,
              queryVars>>
offWeb == <<db, store, runs, run, storeVars, scoreVars, archiveVars, fitVars,
            detectorVars, queryVars>>
offArchive == <<store, runs, run, storeVars, scoreVars, webVars, fitVars,
                detectorVars, queryVars>>
offFit == <<trainVars, storeVars, scoreVars, webVars, archiveVars, detectorVars,
            queryVars>>
offDetector == <<trainVars, storeVars, scoreVars, webVars, archiveVars, fitVars,
                 queryVars>>
offQuery == <<db, store, runs, run, storeVars, scoreVars, webVars, archiveVars,
              fitVars, detectorVars>>
nonTrainVars == <<storeVars, offStore>>
vars == <<trainVars, nonTrainVars>>

(***************************************************************************)
(* Program constants                                                       *)
(***************************************************************************)
_LOOKBACK_DAYS == 90
_BUCKET_SECONDS == 60
_BUCKET_CANDIDATES == <<60, 120, 300, 600, 900, 1800, 3600>>
SecondsPerDay == 86400
MinAlignedRows == 20

(***************************************************************************)
(* Strings                                                                 *)
(***************************************************************************)
\* ord() of the characters the model uses
Ord(c) ==
    CASE c = "'" -> 39 [] c = "-" -> 45 [] c = "." -> 46
      [] c = "0" -> 48 [] c = "1" -> 49 [] c = "2" -> 50 [] c = "3" -> 51
      [] c = "4" -> 52 [] c = "5" -> 53 [] c = "6" -> 54 [] c = "7" -> 55
      [] c = "8" -> 56 [] c = "9" -> 57
      [] c = "B" -> 66 [] c = "F" -> 70 [] c = "H" -> 72 [] c = "P" -> 80
      [] c = "_" -> 95 [] c = "b" -> 98 [] c = "v" -> 118

\* str < str: lexicographic by code point, a proper prefix first
RECURSIVE StrLess(_, _)
StrLess(a, b) ==
    IF Len(b) = 0 THEN FALSE
    ELSE IF Len(a) = 0 THEN TRUE
    ELSE IF a[1] # b[1] THEN Ord(a[1]) < Ord(b[1])
    ELSE StrLess(Tail(a), Tail(b))

\* str.replace(old, ''): every non-overlapping occurrence, left to right
RECURSIVE StrRemove(_, _)
StrRemove(s, old) ==
    IF Len(s) < Len(old) THEN s
    ELSE IF SubSeq(s, 1, Len(old)) = old
         THEN StrRemove(SubSeq(s, Len(old) + 1, Len(s)), old)
    ELSE <<s[1]>> \o StrRemove(Tail(s), old)

SeqToSet(s) == {s[i] : i \in 1..Len(s)}

RECURSIVE SetToSeq(_)
SetToSeq(S) ==
    IF S = {} THEN <<>>
    ELSE LET x == CHOOSE y \in S : TRUE
         IN <<x>> \o SetToSeq(S \ {x})

\* sorted(set(s)) under the order Less
SortedUnique(s, Less(_, _)) == SortSeq(SetToSeq(SeqToSet(s)), Less)

(***************************************************************************)
(* Value Normalizer: get_gateway_dataframe._clean                          *)
(***************************************************************************)
NaN == [nan |-> TRUE, milli |-> 0]
Float(m) == [nan |-> FALSE, milli |-> m]
ValueError == [raised |-> "ValueError"]

Digits == {"0", "1", "2", "3", "4", "5", "6", "7", "8", "9"}
DigitVal(c) == Ord(c) - 48

IsDigits(s) == \A i \in 1..Len(s) : s[i] \in Digits

RECURSIVE IntOf(_)
IntOf(s) == IF Len(s) = 0 THEN 0
            ELSE 10 * IntOf(SubSeq(s, 1, Len(s) - 1)) + DigitVal(s[Len(s)])

\* the fraction digits as thousandths (digits past the third are cut)
MilliOf(s) == IntOf(SubSeq(s \o <<"0", "0", "0">>, 1, 3))

\* float(str) on the model's alphabet: [-] digits [. [digits]]  |  [-] . digits
ParseFloat(s) ==
    LET neg  == Len(s) > 0 /\ s[1] = "-"
        body == IF neg THEN Tail(s) ELSE s
        dots == {i \in 1..Len(body) : body[i] = "."}
    IN IF Cardinality(dots) > 1 THEN ValueError
       ELSE LET d     == IF dots = {} THEN Len(body) + 1 ELSE CHOOSE i \in dots : TRUE
                whole == SubSeq(body, 1, d - 1)
                frac  == SubSeq(body, d + 1, Len(body))
            IN IF ~IsDigits(whole) \/ ~IsDigits(frac)
                  \/ Len(whole) + Len(frac) = 0
               THEN ValueError
               ELSE LET m == IntOf(whole) * 1000 + MilliOf(frac)
                    IN Float(IF neg THEN 0 - m ELSE m)

_clean(v) ==
    LET r == ParseFloat(StrRemove(StrRemove(v, <<"b", "'">>), <<"'">>))
    IN IF r = ValueError THEN NaN ELSE r

\* server.cleanvalue: float(value.replace('b','').replace('v','').replace("'",""))
cleanvalue(value) ==
    ParseFloat(StrRemove(StrRemove(StrRemove(value, <<"b">>), <<"v">>), <<"'">>))

(***************************************************************************)
(* Bucket Selector: _optimal_bucket_seconds                                *)
(***************************************************************************)
np_sort(s) == SortSeq(s, LAMBDA a, b : a < b)
np_diff(s) == [i \in 1..(Len(s) - 1) |-> s[i + 1] - s[i]]

\* 2 * np.median(s), s not empty
Median2(s) ==
    LET t == np_sort(s)
        L == Len(t)
    IN IF L % 2 = 1 THEN 2 * t[(L + 1) \div 2]
       ELSE t[L \div 2] + t[L \div 2 + 1]

\* mutant: the first node's interval instead of the largest
SeqMax_First(s) == s[1]

\* max(intervals)
SeqMax(s) == CHOOSE x \in {s[i] : i \in 1..Len(s)} :
                 \A j \in 1..Len(s) : s[j] <= x

\* df[(df.node_id == n) & (df.type == 'F')]['time'].values, sorted
FTimes(df, n) ==
    LET sel == SelectSeq(df, LAMBDA r : r.node_id = n /\ r.type = "F")
    IN np_sort([i \in 1..Len(sel) |-> sel[i].time])

\* the list 'intervals' (doubled) built by the loop over node_ids
RECURSIVE Intervals2(_, _)
Intervals2(df, node_ids) ==
    IF Len(node_ids) = 0 THEN <<>>
    ELSE LET rest  == Intervals2(df, SubSeq(node_ids, 1, Len(node_ids) - 1))
             times == FTimes(df, node_ids[Len(node_ids)])
         IN IF Len(times) >= 2 THEN Append(rest, Median2(np_diff(times)))
            ELSE rest

\* mutant: the candidate must exceed the interval
RECURSIVE FirstSnap_Strict(_, _)
FirstSnap_Strict(i, max2) ==
    IF i > Len(_BUCKET_CANDIDATES) THEN _BUCKET_CANDIDATES[Len(_BUCKET_CANDIDATES)]
    ELSE IF 2 * _BUCKET_CANDIDATES[i] > max2 THEN _BUCKET_CANDIDATES[i]
    ELSE FirstSnap_Strict(i + 1, max2)

\* for snap in _BUCKET_CANDIDATES: if snap >= max_interval: return snap
RECURSIVE FirstSnap(_, _)
FirstSnap(i, max2) ==
    IF i > Len(_BUCKET_CANDIDATES) THEN _BUCKET_CANDIDATES[Len(_BUCKET_CANDIDATES)]
    ELSE IF 2 * _BUCKET_CANDIDATES[i] >= max2 THEN _BUCKET_CANDIDATES[i]
    ELSE FirstSnap(i + 1, max2)

_optimal_bucket_seconds(df, node_ids) ==
    LET intervals == Intervals2(df, node_ids)
    IN IF Len(intervals) = 0 THEN _BUCKET_SECONDS
       ELSE FirstSnap(1, SeqMax(intervals))

(***************************************************************************)
(* Feature Aligner: get_gateway_dataframe                                  *)
(***************************************************************************)
None == [tag |-> "None"]
DataFrame(cols, rws) == [tag |-> "DataFrame", columns |-> cols, rows |-> rws]

\* db.Sensors.find({gateway_id, time >= start_ts, type in F/H/P}), as a list
Find(gateway_id, start_ts) ==
    SelectSeq(db, LAMBDA r : /\ r.gateway_id = gateway_id
                              /\ r.time >= start_ts
                              /\ r.type \in {"F", "H", "P"})

\* df['value'].apply(_clean); dropna(subset=['value'])
CleanRows(rows) ==
    LET cleaned == [i \in 1..Len(rows) |->
                       [node_id |-> rows[i].node_id, type |-> rows[i].type,
                        value |-> _clean(rows[i].value), time |-> rows[i].time]]
    IN SelectSeq(cleaned, LAMBDA r : ~r.value.nan)

\* sorted(df['node_id'].unique())
NodeIds(df) ==
    SortedUnique([i \in 1..Len(df) |-> df[i].node_id], StrLess)

\* mutant: the bucket is the next multiple of the width
Bucket_Ceil(time, bucket_secs) ==
    ((time + bucket_secs - 1) \div bucket_secs) * bucket_secs

\* (time // bucket_secs) * bucket_secs
Bucket(time, bucket_secs) == (time \div bucket_secs) * bucket_secs

\* node_id + '_' + type
Col(node_id, type) == node_id \o <<"_">> \o <<type>>

\* df['bucket'] = ...; df['col'] = ...
WithKeys(df, bucket_secs) ==
    [i \in 1..Len(df) |->
        [bucket |-> Bucket(df[i].time, bucket_secs),
         col |-> Col(df[i].node_id, df[i].type), value |-> df[i].value]] \o <<>>

\* mutant: aggfunc='last'
PivotFirst_Last(keyed, b, c) ==
    LET hits == {i \in 1..Len(keyed) : keyed[i].bucket = b /\ keyed[i].col = c}
    IN IF hits = {} THEN NaN
       ELSE keyed[CHOOSE i \in hits : \A j \in hits : i >= j].value

\* aggfunc='first': the first value in row order of the cell (b, c)
PivotFirst(keyed, b, c) ==
    LET hits == {i \in 1..Len(keyed) : keyed[i].bucket = b /\ keyed[i].col = c}
    IN IF hits = {} THEN NaN
       ELSE keyed[CHOOSE i \in hits : \A j \in hits : i <= j].value

\* mutant: a column for F and for H of every node seen, observed or not
PivotColumns_BothSignals(keyed) ==
    SortedUnique([i \in 1..(3 * Len(keyed)) |->
                    LET c == keyed[(i + 2) \div 3].col
                    IN IF i % 3 = 0 THEN c
                       ELSE SubSeq(c, 1, Len(c) - 1)
                            \o (IF i % 3 = 1 THEN <<"F">> ELSE <<"H">>)],
                 StrLess)

\* pivot_table(index='bucket', columns='col', values='value', aggfunc='first'):
\* one row per bucket (ascending), one column per col (ascending)
PivotColumns(keyed) ==
    SortedUnique([i \in 1..Len(keyed) |-> keyed[i].col], StrLess)

PivotTable(keyed, columns) ==
    LET buckets == SortedUnique([i \in 1..Len(keyed) |-> keyed[i].bucket],
                                LAMBDA a, b : a < b)
    IN [i \in 1..Len(buckets) |->
           [time_rounded |-> buckets[i],
            vals |-> [c \in SeqToSet(columns) |-> PivotFirst(keyed, buckets[i], c)]]]

\* [f'{n}_{t}' for n in node_ids for t in ('F', 'H') if f'{n}_{t}' in columns]
RECURSIVE Required(_, _)
Required(node_ids, columns) ==
    IF Len(node_ids) = 0 THEN <<>>
    ELSE LET n == node_ids[Len(node_ids)]
          IN Required(SubSeq(node_ids, 1, Len(node_ids) - 1), columns)
             \o SelectSeq(<<Col(n, "F"), Col(n, "H")>>,
                          LAMBDA c : c \in SeqToSet(columns))

\* mutant: dropna(how='all'), a row is kept when any required value is there
DropNa_All(pivoted, required) ==
    SelectSeq(pivoted, LAMBDA row :
        \E k \in 1..Len(required) : ~row.vals[required[k]].nan)

\* pivoted.dropna(subset=required)
DropNa(pivoted, required) ==
    SelectSeq(pivoted, LAMBDA row :
        \A k \in 1..Len(required) : ~row.vals[required[k]].nan)

\* mutant: 20 rows are too few as well
TooFew_Inclusive(result) == Len(result) <= MinAlignedRows

\* if len(result) < 20
TooFew(result) == Len(result) < MinAlignedRows

\* The locals of one call, its exit and its return value ('ret'); a local
\* the call did not reach keeps its value of Locals.
Locals == [rows |-> <<>>, df |-> <<>>, node_ids |-> <<>>, bucket_secs |-> 0,
           keyed |-> <<>>, columns |-> <<>>, pivoted |-> <<>>,
           required |-> <<>>, result |-> <<>>, exit |-> "", ret |-> None]

\* rows = list(cursor); except: return None; if not rows: return None
Fetched(rows, queryFails) ==
    IF queryFails THEN [Locals EXCEPT !.exit = "query failed"]
    ELSE IF Len(rows) = 0 THEN [Locals EXCEPT !.exit = "no rows"]
    ELSE [Locals EXCEPT !.rows = rows]

\* df['value'] = df['value'].apply(_clean); df = df.dropna(subset=['value'])
Cleaned(l) ==
    IF l.exit # "" THEN l ELSE [l EXCEPT !.df = CleanRows(l.rows)]

\* node_ids = sorted(df['node_id'].unique())
Noded(l) ==
    IF l.exit # "" THEN l ELSE [l EXCEPT !.node_ids = NodeIds(l.df)]

\* bucket_secs = _optimal_bucket_seconds(df, node_ids)
Bucketed(l) ==
    IF l.exit # "" THEN l
    ELSE [l EXCEPT !.bucket_secs = _optimal_bucket_seconds(l.df, l.node_ids)]

\* df['bucket'], df['col']
Keyed(l) ==
    IF l.exit # "" THEN l ELSE [l EXCEPT !.keyed = WithKeys(l.df, l.bucket_secs)]

\* pivoted = df.pivot_table(...); pivoted.columns
Columned(l) ==
    IF l.exit # "" THEN l ELSE [l EXCEPT !.columns = PivotColumns(l.keyed)]

Pivoted(l) ==
    IF l.exit # "" THEN l
    ELSE [l EXCEPT !.pivoted = PivotTable(l.keyed, l.columns)]

\* required = [...]; if not required: return None
Requiring(l) ==
    IF l.exit # "" THEN l
    ELSE [l EXCEPT !.required = Required(l.node_ids, l.columns),
                   !.exit = IF Len(Required(l.node_ids, l.columns)) = 0
                            THEN "no required" ELSE ""]

\* result = pivoted.dropna(subset=required)
Dropped(l) ==
    IF l.exit # "" THEN l ELSE [l EXCEPT !.result = DropNa(l.pivoted, l.required)]

\* if len(result) < 20: return None;  return result
Returned(l) ==
    IF l.exit # "" THEN l
    ELSE IF TooFew(l.result) THEN [l EXCEPT !.exit = "too few rows"]
    ELSE [l EXCEPT !.exit = "ok", !.ret = DataFrame(l.columns, l.result)]

\* the intermediate frames are dropped from the record a call leaves
Left(l) ==
    [rows |-> l.rows, df |-> l.df, node_ids |-> l.node_ids,
     bucket_secs |-> l.bucket_secs, columns |-> l.columns,
     required |-> l.required, result |-> l.result, exit |-> l.exit,
     ret |-> l.ret]

get_gateway_dataframe(gateway_id, queryFails) ==
    Left(Returned(Dropped(Requiring(Pivoted(Columned(Keyed(Bucketed(Noded(Cleaned(
        Fetched(Find(gateway_id, now - _LOOKBACK_DAYS * SecondsPerDay),
                queryFails)))))))))))

(***************************************************************************)
(* Trainer/Selector: train_and_select_best                                 *)
(*                                                                         *)
(* What a detector variant does on the matrix (sklearn) is an input: each  *)
(* variant either raises in train_model, in predict or in compute_auc, or  *)
(* yields an AUC (in thousandths).                                         *)
(***************************************************************************)
DetectorNames == <<"IsolationForest", "OneClassSVM", "NS-RandomForest">>

Raises(where) == [err |-> where, auc |-> 0]
Scores(auc)   == [err |-> "", auc |-> auc]

\* mutant: no try/except around a variant, the first raise ends the loop
RECURSIVE TrainAll_NoCatch(_, _, _)
TrainAll_NoCatch(names, fit, serial) ==
    IF Len(names) = 0 THEN [trained |-> <<>>, results |-> <<>>]
    ELSE LET name == names[Len(names)]
             rest == TrainAll_NoCatch(SubSeq(names, 1, Len(names) - 1), fit, serial)
         IN IF Len(rest.trained) < Len(names) - 1 \/ Len(rest.results) < Len(names) - 1
            THEN [rest EXCEPT !.results = <<>>]
            ELSE IF fit[name].err # ""
                 THEN [trained |-> Append(rest.trained, name), results |-> <<>>]
            ELSE [trained |-> Append(rest.trained, name),
                  results |-> Append(rest.results,
                                     [name |-> name, auc |-> fit[name].auc,
                                      det |-> [variant |-> name, fit |-> serial]])]

\* for name, det in detectors.items(): try: train, predict, auc; except: log.
\* 'trained' lists the variants whose train_model was called, 'results' the
\* dict entries (det, auc) in insertion order.
RECURSIVE TrainAll(_, _, _)
TrainAll(names, fit, serial) ==
    IF Len(names) = 0 THEN [trained |-> <<>>, results |-> <<>>]
    ELSE LET name == names[Len(names)]
             rest == TrainAll(SubSeq(names, 1, Len(names) - 1), fit, serial)
             done == [rest EXCEPT !.trained = Append(@, name)]
         IN IF fit[name].err # "" THEN done
            ELSE [done EXCEPT !.results =
                     Append(@, [name |-> name, auc |-> fit[name].auc,
                                det |-> [variant |-> name, fit |-> serial]])]

\* mutant: the last of the largest
RECURSIVE MaxByAuc_LastWins(_)
MaxByAuc_LastWins(results) ==
    IF Len(results) = 1 THEN results[1]
    ELSE LET best == MaxByAuc_LastWins(SubSeq(results, 1, Len(results) - 1))
             last == results[Len(results)]
         IN IF last.auc >= best.auc THEN last ELSE best

\* max(results, key=lambda k: results[k][1]): the first of the largest
RECURSIVE MaxByAuc(_)
MaxByAuc(results) ==
    IF Len(results) = 1 THEN results[1]
    ELSE LET best == MaxByAuc(SubSeq(results, 1, Len(results) - 1))
             last == results[Len(results)]
         IN IF last.auc > best.auc THEN last ELSE best

train_and_select_best(node_df, fit, serial) ==
    LET loop == TrainAll(DetectorNames, fit, serial)
    IN IF Len(loop.results) = 0
       THEN [raised |-> "RuntimeError: All detectors failed to train",
             trained |-> loop.trained, results |-> loop.results]
       ELSE LET best == MaxByAuc(loop.results)
            IN [raised |-> "", trained |-> loop.trained, results |-> loop.results,
                best_det |-> best.det, best_name |-> best.name,
                best_auc |-> best.auc, feature_cols |-> node_df.columns]

(***************************************************************************)
(* JSON numbers: what json.dump writes for an int and a float (repr) and   *)
(* what json.load makes of the text                                        *)
(***************************************************************************)
DigitChar(d) == <<"0", "1", "2", "3", "4", "5", "6", "7", "8", "9">>[d + 1]

\* str(n), n >= 0
RECURSIVE FormatInt(_)
FormatInt(n) ==
    IF n < 10 THEN <<DigitChar(n)>>
    ELSE FormatInt(n \div 10) \o <<DigitChar(n % 10)>>

\* the fraction digits of repr(): no trailing zero, at least one digit
RECURSIVE StripZeros(_)
StripZeros(digits) ==
    IF Len(digits) > 1 /\ digits[Len(digits)] = "0"
    THEN StripZeros(SubSeq(digits, 1, Len(digits) - 1))
    ELSE digits

\* mutant: the text keeps two fraction digits
FormatFloat_TwoDigits(m) ==
    FormatInt(m \div 1000) \o <<".">>
    \o <<DigitChar((m % 1000) \div 100), DigitChar((m % 100) \div 10)>>

\* repr(x) of a float x >= 0 given in thousandths
FormatFloat(m) ==
    FormatInt(m \div 1000) \o <<".">>
    \o StripZeros(<<DigitChar((m % 1000) \div 100), DigitChar((m % 100) \div 10),
                    DigitChar(m % 10)>>)

\* repr(x) of a float x >= 0 that is a whole number (time.time() in seconds)
FormatWhole(n) == FormatInt(n) \o <<".", "0">>

\* json.load of a number written by json.dump
JsonInt(text) == IntOf(text)
JsonFloat(text) == ParseFloat(text).milli
JsonWhole(text) == IntOf(SubSeq(text, 1, Len(text) - 2))

(***************************************************************************)
(* Model Store: save_model                                                 *)
(***************************************************************************)
NoFile == [kind |-> "absent"]
PartialFile == [kind |-> "partial"]
ModelFile(det) == [kind |-> "joblib", det |-> det]
MetaFile(model_type, auc, feature_columns, nodes, num_rows, trained_at) ==
    [kind |-> "json", model_type |-> model_type, auc |-> FormatFloat(auc),
     feature_columns |-> feature_columns, nodes |-> nodes,
     num_rows |-> FormatInt(num_rows),
     trained_at |-> FormatWhole(trained_at)]

EmptyDir == [dir |-> FALSE, model |-> NoFile, meta |-> NoFile]

\* What the file system does to one save: nothing, or an OSError in
\* os.makedirs, in joblib.dump (before or after the file was opened for
\* writing) or in the metadata write (before or after the file was opened).
SaveFaults == {"none", "makedirs", "dump", "dump partial",
               "metadata", "metadata partial"}

\* mutant: the rollback is missing
RemoveModel_Keep(d) == d

\* os.remove(model_path) if os.path.isfile(model_path)
RemoveModel(d) == IF d.model.kind # "absent" THEN [d EXCEPT !.model = NoFile] ELSE d

\* the directory models/{gateway_id} after the call, and what the call raised
save_model(d, model, model_type, auc, feature_columns, nodes, num_rows, fault) ==
    IF fault = "makedirs" THEN [raised |-> "OSError", dir |-> d]
    ELSE LET d1 == [d EXCEPT !.dir = TRUE]
         IN IF fault = "dump" THEN [raised |-> "OSError", dir |-> d1]
            ELSE IF fault = "dump partial"
                 THEN [raised |-> "OSError", dir |-> [d1 EXCEPT !.model = PartialFile]]
            ELSE LET d2 == [d1 EXCEPT !.model = ModelFile(model)]
                 IN IF fault = "metadata"
                    THEN [raised |-> "OSError", dir |-> RemoveModel(d2)]
                    ELSE IF fault = "metadata partial"
                         THEN [raised |-> "OSError",
                               dir |-> RemoveModel([d2 EXCEPT !.meta = PartialFile])]
                    ELSE [raised |-> "",
                          dir |-> [d2 EXCEPT !.meta =
                                      MetaFile(model_type, auc, feature_columns,
                                               nodes, num_rows, now)]]

(***************************************************************************)
(* Orchestration: train_for_gateway                                        *)
(***************************************************************************)
\* c.rsplit('_', 1)[0]
RECURSIVE RSplitHead(_)
RSplitHead(c) ==
    IF Len(c) = 0 THEN c
    ELSE IF c[Len(c)] = "_" THEN SubSeq(c, 1, Len(c) - 1)
    ELSE RSplitHead(SubSeq(c, 1, Len(c) - 1))

\* sorted({c.rsplit('_', 1)[0] for c in feature_cols})
NodesOf(feature_cols) ==
    SortedUnique([i \in 1..Len(feature_cols) |-> RSplitHead(feature_cols[i])],
                 StrLess)

Return(v) == [kind |-> "return", value |-> v]
Raise(e)  == [kind |-> "raise", exc |-> e]
Pending   == [kind |-> "pending"]

Skipped(gateway_id) ==
    [gateway_id |-> gateway_id, status |-> "skipped",
     reason |-> "insufficient aligned data"]
Failed(gateway_id, error) ==
    [gateway_id |-> gateway_id, status |-> "failed", error |-> error]
Done(gateway_id, model_type, auc, feature_cols, nodes, num_rows) ==
    [gateway_id |-> gateway_id, status |-> "done", model_type |-> model_type,
     auc |-> auc, feature_columns |-> feature_cols, nodes |-> nodes,
     num_rows |-> num_rows]

(***************************************************************************)
(* The reading store the pipeline is run on                                *)
(***************************************************************************)
MaxTicks == 21     \* reports per node in a long series
MaxRuns == 2       \* train_for_gateway invocations

Gateways == {"gw1", "gw2"}

Reading(g, n, t, v, at) ==
    [gateway_id |-> g, node_id |-> n, type |-> t, value |-> v, time |-> at]

\* raw values as the ingestion stores them
RawF(k) == CASE k % 3 = 0 -> <<"7", "2", ".", "5">>
             [] k % 3 = 1 -> <<"b", "'", "7", "0", ".", "1", "'">>
             [] k % 3 = 2 -> <<"'", "6", "8", "'">>
RawH(k) == IF k % 2 = 0 THEN <<"b", "'", "4", "1", "'">> ELSE <<"3", "9", ".", "2", "5">>
RawP == <<"1", "0", "1", "3">>
RawBad == {<<"v", "7", "2", ".", "5">>, <<"b", "7", "2", ".", "5">>,
           <<"7", ".", "2", ".", "5">>, <<>>}

\* What node `n` (period `per`) stores at its k-th report: F, H and, for node
\* 1 on even reports, P, sent in one shot.  `hold` withholds one signal of node
\* 2 for the whole series; `glitch` spoils the H of node 1 at report 1.
Report(n, per, k, hold, glitch) ==
    LET at == 600 + k * per
        f  == IF n = <<"2">> /\ hold = "F" THEN <<>>
              ELSE <<Reading("gw1", n, "F", RawF(k), at)>>
        h  == IF n = <<"2">> /\ hold = "H" THEN <<>>
              ELSE IF n = <<"1">> /\ k = 1 /\ glitch.kind = "absent" THEN <<>>
              ELSE IF n = <<"1">> /\ k = 1 /\ glitch.kind = "bad"
                   THEN <<Reading("gw1", n, "H", glitch.raw, at)>>
              ELSE <<Reading("gw1", n, "H", RawH(k), at)>>
        pr == IF n = <<"1">> /\ k % 2 = 0
              THEN <<Reading("gw1", n, "P", RawP, at)>> ELSE <<>>
    IN f \o h \o pr

RECURSIVE Series(_, _)
Series(p, k) ==
    IF k = 0 THEN <<>>
    ELSE Series(p, k - 1)
         \o Report(<<"1">>, p.per1, k - 1, p.hold, p.glitch)
         \o (IF p.per2 = 0 THEN <<>>
             ELSE Report(<<"2">>, p.per2, k - 1, p.hold, p.glitch))

\* stray readings stored after the series
Extras ==
    { <<>>,
      <<Reading("gw1", <<"1">>, "H", <<"9", "9">>, 601)>>,
      <<Reading("gw1", <<"1">>, "F", <<"7", "1">>, 721)>>,
      <<Reading("gw1", <<"2">>, "F", <<"6", "6">>, 4201),
        Reading("gw1", <<"2">>, "H", <<"4", "0">>, 4201)>>,
      <<Reading("gw1", <<"3">>, "F", <<"5", "5">>, 600)>>,
      <<Reading("gw1", <<"1">>, "F", <<"v", "7", "1">>, 100000)>> }

\* what the other gateway and the other signal types contribute
Foreign ==
    <<Reading("gw2", <<"1">>, "F", <<"6", "1">>, 600),
      Reading("gw2", <<"1">>, "H", <<"4", "4">>, 600),
      Reading("gw2", <<"1">>, "F", <<"6", "2">>, 900),
      Reading("gw1", <<"1">>, "B", <<"3", ".", "3">>, 600)>>

Dataset(p) == Series(p, p.ticks) \o p.extra \o Foreign

Glitches == {[kind |-> "none", raw |-> <<>>], [kind |-> "absent", raw |-> <<>>]}
            \cup {[kind |-> "bad", raw |-> r] : r \in RawBad}

Periods == {<<60, 0>>, <<60, 60>>, <<100, 100>>, <<60, 100>>, <<4000, 4000>>,
            <<60, 4000>>}
TickCounts == (0..3) \cup {MaxTicks - 1, MaxTicks}

NoGlitch == [kind |-> "none", raw |-> <<>>]

Param(pp, k, h, g, x) ==
    [per1 |-> pp[1], per2 |-> pp[2], ticks |-> k, hold |-> h, glitch |-> g,
     extra |-> x]

\* every cadence and length undisturbed; two cadences disturbed in two ways
PlainParams ==
    {Param(pp, k, "none", NoGlitch, <<>>) : pp \in Periods, k \in TickCounts}

Params ==
    PlainParams
    \cup {Param(pp, k, h, g, <<>>) :
            pp \in {<<60, 60>>, <<4000, 4000>>}, k \in {2, 3, MaxTicks - 1, MaxTicks},
            h \in {"none", "F", "H"}, g \in Glitches}
    \cup {Param(pp, k, h, NoGlitch, x) :
            pp \in {<<60, 60>>, <<4000, 4000>>}, k \in {2, 3, MaxTicks - 1, MaxTicks},
            h \in {"none", "F", "H"}, x \in Extras}

\* no call of train_for_gateway yet
NoRun == [pc |-> "idle", gateway_id |-> "", queryFails |-> FALSE, gw |-> None,
          fit |-> None, sel |-> None, fault |-> "", before |-> None,
          stored |-> None, outcome |-> Pending]

\* no call of save_model, load_model or model_exists yet
NoSave == [pc |-> "idle", gateway_id |-> "", args |-> None, raised |-> ""]
NoLoad == [pc |-> "idle", op |-> "", gateway_id |-> "", model |-> None,
           saves |-> <<>>, overlap |-> FALSE, outcome |-> Pending]
StoreIdle == saver = NoSave /\ loader = NoLoad /\ history = <<>>

\* no call of predict_anomalies yet
NoScore == [pc |-> "idle", model |-> None, fh_df |-> None, threshold |-> 0,
            feature_columns |-> None, passed |-> None, outcome |-> Pending]
ScoreIdle == scorer = NoScore

\* app_state.py as imported: no codes, no tokens, the plug off and online
EmptyDict == <<>>
NoEnv == [GOOGLE_HOME_CLIENT_ID |-> "", GOOGLE_HOME_CLIENT_SECRET |-> ""]
InitialDevices == [device_1 |-> [on |-> FALSE, online |-> TRUE]]
NoMongo == [user_profiles |-> {}, nicknames_col |-> {}, sensors_latest |-> {}]
NoHttp == [route |-> ""]
WebIdle ==
    /\ env = NoEnv
    /\ OAUTH_CODES = EmptyDict /\ OAUTH_TOKENS = EmptyDict
    /\ MOCK_DEVICES = InitialDevices
    /\ mongo = NoMongo /\ http = NoHttp

\* archivedb not started
NoArchive == [pc |-> "idle"]
ArchiveIdle == archiver = NoArchive

\* np.random as imported (seeded from the system), no thread training
Trainers == {1, 2}
Unseeded == [seed |-> 0, drawn |-> 0]
NoTrainer == [pc |-> "idle", calls |-> 0, random_state |-> 0, draws |-> <<>>]
FitIdle == np_random = Unseeded /\ trainers = [t \in Trainers |-> NoTrainer]

\* no detector constructed, no getdatausinggw call yet
NoDetector == [pc |-> "none"]
DetectorIdle == detector = NoDetector
NoQuery == [pc |-> "idle"]
QueryIdle == query = NoQuery

LateIdle == FitIdle /\ DetectorIdle /\ QueryIdle

NonTrainIdle == StoreIdle /\ ScoreIdle /\ WebIdle /\ ArchiveIdle /\ LateIdle

(***************************************************************************)
(* Actions: one call of train_for_gateway at a time, in its three steps    *)
(* (align, train, save); run.pc is the position of the call.               *)
(***************************************************************************)
\* gw_df = get_gateway_dataframe(db, gateway_id); if gw_df is None: return skipped
TrainAlign(gateway_id, queryFails) ==
    /\ run.pc \in {"idle", "returned"}
    /\ runs < MaxRuns
    /\ runs' = runs + 1
    /\ LET gw == get_gateway_dataframe(gateway_id, queryFails)
           r  == [NoRun EXCEPT !.gateway_id = gateway_id,
                               !.queryFails = queryFails, !.gw = gw,
                               !.before = store[gateway_id],
                               !.stored = store]
       IN run' = IF gw.ret = None
                 THEN [r EXCEPT !.pc = "returned",
                                !.outcome = Return(Skipped(gateway_id))]
                 ELSE [r EXCEPT !.pc = "training"]
    /\ UNCHANGED <<db, now, store, nonTrainVars>>

\* mutant: the gateway's directory is made before the variants are fitted
TrainFit_MakeDir(fit) ==
    /\ run.pc = "training"
    /\ LET sel == train_and_select_best(run.gw.ret, fit, runs)
       IN run' = IF sel.raised # ""
                 THEN [run EXCEPT !.pc = "returned", !.fit = fit, !.sel = sel,
                           !.outcome = Return(Failed(run.gateway_id, sel.raised))]
                 ELSE [run EXCEPT !.pc = "saving", !.fit = fit, !.sel = sel]
    /\ store' = [store EXCEPT ![run.gateway_id].dir = TRUE]
    /\ UNCHANGED <<db, now, runs, nonTrainVars>>

\* try: train_and_select_best(feature_df)  except: return failed
\* `fit` is what the three detector variants do on this matrix.
TrainFit(fit) ==
    /\ run.pc = "training"
    /\ LET sel == train_and_select_best(run.gw.ret, fit, runs)
       IN run' = IF sel.raised # ""
                 THEN [run EXCEPT !.pc = "returned", !.fit = fit, !.sel = sel,
                           !.outcome = Return(Failed(run.gateway_id, sel.raised))]
                 ELSE [run EXCEPT !.pc = "saving", !.fit = fit, !.sel = sel]
    /\ UNCHANGED <<db, now, store, runs, nonTrainVars>>

\* save_model(...); return done.  `fault` is what the file system does.
TrainSave(fault) ==
    /\ run.pc = "saving"
    /\ LET sel      == run.sel
           nodes    == NodesOf(sel.feature_cols)
           num_rows == Len(run.gw.ret.rows)
           sv == save_model(store[run.gateway_id], sel.best_det, sel.best_name,
                            sel.best_auc, sel.feature_cols, nodes, num_rows, fault)
       IN /\ store' = [store EXCEPT ![run.gateway_id] = sv.dir]
          /\ run' = [run EXCEPT
                       !.pc = "returned", !.fault = fault,
                       !.outcome =
                          IF sv.raised # "" THEN Raise(sv.raised)
                          ELSE Return(Done(run.gateway_id, sel.best_name,
                                           sel.best_auc, sel.feature_cols,
                                           nodes, num_rows))]
    /\ UNCHANGED <<db, now, runs, nonTrainVars>>

(***************************************************************************)
(* SpecAlign: the aligner on every stored series, the variants healthy     *)
(***************************************************************************)
HealthyFit == [n \in SeqToSet(DetectorNames) |-> Scores(900)]

InitAlign ==
    /\ \/ \E p \in Params : db = Dataset(p) /\ now = _LOOKBACK_DAYS * SecondsPerDay
       \/ \E p \in PlainParams :
             db = Dataset(p) /\ now = _LOOKBACK_DAYS * SecondsPerDay + 630
    /\ store = [g \in Gateways |-> EmptyDir]
    /\ runs = 0
    /\ run = NoRun
    /\ NonTrainIdle

NextAlign ==
    \/ \E g \in Gateways, qf \in BOOLEAN : TrainAlign(g, qf)
    \/ TrainFit(HealthyFit)
    \/ TrainSave("none")

SpecAlign == InitAlign /\ [][NextAlign]_vars

(***************************************************************************)
(* SpecSelect: every behaviour of the three variants, the file system sound *)
(***************************************************************************)
AucValues == {500, 900, 1000}
VariantOutcomes == {Raises(w) : w \in {"train_model", "predict", "compute_auc"}}
                   \cup {Scores(a) : a \in AucValues}
Fits == [SeqToSet(DetectorNames) -> VariantOutcomes]

TrainParams ==
    {Param(<<60, 60>>, k, "none", NoGlitch, <<>>) : k \in {MaxTicks - 2, MaxTicks}}

Init ==
    /\ \E p \in TrainParams : db = Dataset(p)
    /\ now = _LOOKBACK_DAYS * SecondsPerDay
    /\ store = [g \in Gateways |-> EmptyDir]
    /\ runs = 0
    /\ run = NoRun
    /\ NonTrainIdle

NextSelect ==
    \/ \E g \in Gateways, qf \in BOOLEAN : TrainAlign(g, qf)
    \/ \E fit \in Fits : TrainFit(fit)
    \/ TrainSave("none")

SpecSelect == Init /\ [][NextSelect]_vars

(***************************************************************************)
(* Spec: every fault of the file system, a few behaviours of the variants  *)
(***************************************************************************)
FewFits ==
    { HealthyFit,
      [n \in SeqToSet(DetectorNames) |-> Raises("train_model")],
      [HealthyFit EXCEPT !["IsolationForest"] = Raises("predict")],
      [HealthyFit EXCEPT !["NS-RandomForest"] = Scores(1000)] }

Next ==
    \/ \E g \in Gateways, qf \in BOOLEAN : TrainAlign(g, qf)
    \/ \E fit \in FewFits : TrainFit(fit)
    \/ \E fault \in SaveFaults : TrainSave(fault)

Spec == Init /\ [][Next]_vars
(***************************************************************************)
(* SpecStore: save_model, load_model and model_exists called side by side. *)
(* A save is a sequence of file-system steps (makedirs; model.joblib       *)
(* opened for writing, then complete; metadata.json opened for writing,    *)
(* then complete), a load is two reads; the steps of one call interleave   *)
(* with those of the other.                                                *)
(***************************************************************************)
MaxSaves == 2      \* save_model calls

SaveArgs ==
    { [model_type |-> "IsolationForest", auc |-> 900,
       feature_columns |-> <<<<"1", "_", "F">>, <<"1", "_", "H">>>>,
       nodes |-> <<<<"1">>>>, num_rows |-> 21],
      [model_type |-> "OneClassSVM", auc |-> 875,
       feature_columns |-> <<<<"1", "_", "F">>, <<"1", "_", "H">>,
                             <<"2", "_", "F">>, <<"2", "_", "H">>>>,
       nodes |-> <<<<"1">>, <<"2">>>>, num_rows |-> 1200] }

SaverBusy(g) == saver.pc \notin {"idle", "returned"} /\ saver.gateway_id = g
LoaderBusy(g) == loader.pc \in {"model", "metadata"} /\ loader.gateway_id = g

\* a step of the save while a load of the same gateway is under way
Overlapped == IF LoaderBusy(saver.gateway_id)
              THEN [loader EXCEPT !.overlap = TRUE] ELSE loader

\* save_model(gateway_id, model, model_type, auc, ...) is called
SaveCall(g, a) ==
    /\ saver.pc \in {"idle", "returned"}
    /\ Len(history) < MaxSaves
    /\ LET args == [model |-> [variant |-> a.model_type, fit |-> Len(history) + 1],
                    model_type |-> a.model_type, auc |-> a.auc,
                    feature_columns |-> a.feature_columns, nodes |-> a.nodes,
                    num_rows |-> a.num_rows]
       IN /\ saver' = [pc |-> "makedirs", gateway_id |-> g, args |-> args,
                       raised |-> ""]
          /\ history' = Append(history, [gateway_id |-> g, args |-> args,
                                         status |-> "running"])
    /\ UNCHANGED <<trainVars, loader, offStore>>

\* os.makedirs(path, exist_ok=True)
SaveMakedirs ==
    /\ saver.pc = "makedirs"
    /\ store' = [store EXCEPT ![saver.gateway_id].dir = TRUE]
    /\ saver' = [saver EXCEPT !.pc = "dump"]
    /\ loader' = Overlapped
    /\ UNCHANGED <<db, now, runs, run, history, offStore>>

\* joblib.dump(model, model_path): the file is opened for writing
SaveDumpOpen ==
    /\ saver.pc = "dump"
    /\ store' = [store EXCEPT ![saver.gateway_id].model = PartialFile]
    /\ saver' = [saver EXCEPT !.pc = "dumping"]
    /\ loader' = Overlapped
    /\ UNCHANGED <<db, now, runs, run, history, offStore>>

\* joblib.dump(model, model_path): the file is complete
SaveDumpClose ==
    /\ saver.pc = "dumping"
    /\ store' = [store EXCEPT ![saver.gateway_id].model = ModelFile(saver.args.model)]
    /\ saver' = [saver EXCEPT !.pc = "metadata"]
    /\ loader' = Overlapped
    /\ UNCHANGED <<db, now, runs, run, history, offStore>>

\* with open(meta_path, 'w') as f: the file is opened for writing
SaveMetaOpen ==
    /\ saver.pc = "metadata"
    /\ store' = [store EXCEPT ![saver.gateway_id].meta = PartialFile]
    /\ saver' = [saver EXCEPT !.pc = "writing"]
    /\ loader' = Overlapped
    /\ UNCHANGED <<db, now, runs, run, history, offStore>>

\* json.dump({...}, f): the file is complete, save_model returns
SaveMetaClose ==
    /\ saver.pc = "writing"
    /\ store' = [store EXCEPT ![saver.gateway_id].meta =
                    MetaFile(saver.args.model_type, saver.args.auc,
                             saver.args.feature_columns, saver.args.nodes,
                             saver.args.num_rows, now)]
    /\ saver' = [saver EXCEPT !.pc = "returned"]
    /\ history' = [history EXCEPT ![Len(history)].status = "ok"]
    /\ loader' = Overlapped
    /\ UNCHANGED <<db, now, runs, run, offStore>>

\* the step the save is at raises OSError: the except clause of that step
SaveRaise ==
    /\ saver.pc \in {"makedirs", "dump", "dumping", "metadata", "writing"}
    /\ store' = IF saver.pc \in {"metadata", "writing"}
                THEN [store EXCEPT ![saver.gateway_id] = RemoveModel(@)]
                ELSE store
    /\ saver' = [saver EXCEPT !.pc = "returned", !.raised = "OSError"]
    /\ history' = [history EXCEPT ![Len(history)].status = "OSError"]
    /\ loader' = Overlapped
    /\ UNCHANGED <<db, now, runs, run, offStore>>

\* joblib.load(path) on the file as it is at that instant
joblib_load(f) ==
    IF f.kind = "absent" THEN Raise("FileNotFoundError")
    ELSE IF f.kind = "partial" THEN Raise("EOFError")
    ELSE Return(f.det)

\* with open(path) as f: json.load(f)
json_load(f) ==
    IF f.kind = "absent" THEN Raise("FileNotFoundError")
    ELSE IF f.kind = "partial" THEN Raise("JSONDecodeError")
    ELSE Return([model_type |-> f.model_type, auc |-> JsonFloat(f.auc),
                 feature_columns |-> f.feature_columns, nodes |-> f.nodes,
                 num_rows |-> JsonInt(f.num_rows),
                 trained_at |-> JsonWhole(f.trained_at)])

\* load_model(gateway_id) is called
LoadCall(g) ==
    /\ loader.pc \in {"idle", "returned"}
    /\ loader' = [NoLoad EXCEPT !.pc = "model", !.op = "load_model",
                                !.gateway_id = g, !.saves = history,
                                !.overlap = SaverBusy(g)]
    /\ UNCHANGED <<trainVars, saver, history, offStore>>

\* model = joblib.load(os.path.join(path, 'model.joblib'))
LoadModelRead ==
    /\ loader.pc = "model"
    /\ LET got == joblib_load(store[loader.gateway_id].model)
       IN loader' = IF got.kind = "raise"
                    THEN [loader EXCEPT !.pc = "returned", !.outcome = got]
                    ELSE [loader EXCEPT !.pc = "metadata", !.model = got.value]
    /\ UNCHANGED <<trainVars, saver, history, offStore>>

\* metadata = json.load(f); return model, metadata
LoadMetaRead ==
    /\ loader.pc = "metadata"
    /\ LET got == json_load(store[loader.gateway_id].meta)
       IN loader' = [loader EXCEPT
                        !.pc = "returned",
                        !.outcome = IF got.kind = "raise" THEN got
                                    ELSE Return([model |-> loader.model,
                                                 metadata |-> got.value])]
    /\ UNCHANGED <<trainVars, saver, history, offStore>>

\* model_exists(gateway_id): os.path.isfile(.../model.joblib)
ModelExists(g) ==
    /\ loader.pc \in {"idle", "returned"}
    /\ loader' = [NoLoad EXCEPT !.pc = "returned", !.op = "model_exists",
                                !.gateway_id = g, !.saves = history,
                                !.overlap = SaverBusy(g),
                                !.outcome = Return(store[g].model.kind # "absent")]
    /\ UNCHANGED <<trainVars, saver, history, offStore>>

InitStore ==
    /\ db = <<>>
    /\ now = _LOOKBACK_DAYS * SecondsPerDay
    /\ store = [g \in Gateways |-> EmptyDir]
    /\ runs = 0
    /\ run = NoRun
    /\ NonTrainIdle

NextStore ==
    \/ \E g \in Gateways, a \in SaveArgs : SaveCall(g, a)
    \/ SaveMakedirs
    \/ SaveDumpOpen
    \/ SaveDumpClose
    \/ SaveMetaOpen
    \/ SaveMetaClose
    \/ SaveRaise
    \/ \E g \in Gateways : LoadCall(g)
    \/ LoadModelRead
    \/ LoadMetaRead
    \/ \E g \in Gateways : ModelExists(g)

SpecStore == InitStore /\ [][NextStore]_vars

(***************************************************************************)
(* Properties                                                              *)
(***************************************************************************)
\* the call reached the Bucket Selector
BucketChosen == run.pc # "idle" /\ run.gw.exit \notin {"query failed", "no rows"}

\* order statistics, without sorting: the k-th smallest element of s
CountLess(s, v) == Cardinality({i \in 1..Len(s) : s[i] < v})
CountLeq(s, v)  == Cardinality({i \in 1..Len(s) : s[i] <= v})
Kth(s, k) == CHOOSE v \in SeqToSet(s) : CountLess(s, v) < k /\ k <= CountLeq(s, v)

\* the F timestamps of node n, as stored
FStamps(df, n) ==
    LET sel == SelectSeq(df, LAMBDA r : r.node_id = n /\ r.type = "F")
    IN [i \in 1..Len(sel) |-> sel[i].time] \o <<>>

\* twice the median gap between consecutive sorted F timestamps of node n
GapMedian2(df, n) ==
    LET T == FStamps(df, n)
        m == Len(T) - 1
        g == [i \in 1..m |-> Kth(T, i + 1) - Kth(T, i)] \o <<>>
    IN Kth(g, (m + 1) \div 2) + Kth(g, m \div 2 + 1)

Paced(df, nodes) == {n \in nodes : Len(FStamps(df, n)) >= 2}

SetMax(S) == CHOOSE x \in S : \A y \in S : y <= x
SetMin(S) == CHOOSE x \in S : \A y \in S : x <= y

ExpectedBucket(df, nodes) ==
    LET paced == Paced(df, nodes)
        cands == {60, 120, 300, 600, 900, 1800, 3600}
    IN IF paced = {} THEN 60
       ELSE LET max2 == SetMax({GapMedian2(df, n) : n \in paced})
                wide == {c \in cands : 2 * c >= max2}
            IN IF wide = {} THEN 3600 ELSE SetMin(wide)

\* C1: the Bucket Selector returns 60 when no node has two F readings, else
\* the smallest candidate >= the largest per-node median F gap, else 3600.
C1_BucketSelector ==
    BucketChosen =>
        run.gw.bucket_secs = ExpectedBucket(run.gw.df, SeqToSet(run.gw.node_ids))

\* two nodes of different pace, the slower one between two candidates
C1_Witness ==
    /\ BucketChosen
    /\ \E n1, n2 \in Paced(run.gw.df, SeqToSet(run.gw.node_ids)) :
          /\ GapMedian2(run.gw.df, n1) < GapMedian2(run.gw.df, n2)
          /\ GapMedian2(run.gw.df, n2) < 2 * run.gw.bucket_secs
    /\ run.gw.bucket_secs \notin {60, 3600}

Matches ==
    {i \in 1..Len(db) : /\ db[i].gateway_id = run.gateway_id
                        /\ db[i].time >= now - 90 * 86400
                        /\ db[i].type \in {"F", "H", "P"}}

\* those whose value parses
Usable == {i \in Matches : ~_clean(db[i].value).nan}

\* the (node, signal) pairs the readings `usable` observe, and the F/H ones
Observed(usable) == {<<db[i].node_id, db[i].type>> : i \in usable}
ObservedFH(usable) == {pr \in Observed(usable) : pr[2] \in {"F", "H"}}

BucketOf(i, width) == (db[i].time \div width) * width

\* the buckets in which every pair of `fh` has a reading of `usable`
CompleteBuckets(usable, fh, width) ==
    {b \in {BucketOf(i, width) : i \in usable} :
        \A pr \in fh :
            \E i \in usable : /\ db[i].node_id = pr[1] /\ db[i].type = pr[2]
                              /\ BucketOf(i, width) = b}

\* C3: every row of the returned matrix has a value, taken from a reading of
\* that bucket, in the F and H column of every node that contributed them.
C3_RequiredColumnsPresent ==
    (run.pc # "idle" /\ run.gw.ret # None) =>
        LET usable == Usable
            fh     == ObservedFH(usable)
        IN \A k \in 1..Len(run.gw.ret.rows) : \A pr \in fh :
              LET row == run.gw.ret.rows[k]
                  c   == pr[1] \o <<"_", pr[2]>>
              IN /\ c \in DOMAIN row.vals
                 /\ ~row.vals[c].nan
                 /\ \E i \in usable :
                       /\ db[i].node_id = pr[1] /\ db[i].type = pr[2]
                       /\ BucketOf(i, run.gw.bucket_secs) = row.time_rounded

\* a matrix came back although a bucket was dropped, and an optional P value
\* is missing in a row of it
C3_Witness ==
    /\ run.pc # "idle" /\ run.gw.ret # None
    /\ \E i \in Usable : \A k \in 1..Len(run.gw.ret.rows) :
          run.gw.ret.rows[k].time_rounded # BucketOf(i, run.gw.bucket_secs)
    /\ \E k \in 1..Len(run.gw.ret.rows) :
          run.gw.ret.rows[k].vals[<<"1", "_", "P">>].nan

C6_StripsArtifactsAndParses ==
    BucketChosen =>
        \A i \in 1..Len(run.gw.rows) :
            LET ref == cleanvalue(run.gw.rows[i].value)
            IN ref # ValueError =>
                  \E j \in 1..Len(run.gw.df) :
                      /\ run.gw.df[j].node_id = run.gw.rows[i].node_id
                      /\ run.gw.df[j].type = run.gw.rows[i].type
                      /\ run.gw.df[j].time = run.gw.rows[i].time
                      /\ run.gw.df[j].value = ref

(***************************************************************************)
(* Trainer/Selector properties, stated on what the variants did            *)
(***************************************************************************)
Trained == run.pc \in {"saving", "returned"} /\ run.fit # None
Alive == {n \in SeqToSet(DetectorNames) : run.fit[n].err = ""}
Rank(n) == CASE n = "IsolationForest" -> 1 [] n = "OneClassSVM" -> 2
             [] n = "NS-RandomForest" -> 3

\* C7: the variant returned has the highest AUC of those that did not fail,
\* and is the first of them in the order IF, OC-SVM, NS-RF.
C7_HighestAucFirstWins ==
    (Trained /\ Alive # {}) =>
        LET b == run.sel.best_name
        IN /\ b \in Alive
           /\ run.sel.best_auc = run.fit[b].auc
           /\ run.sel.best_det.variant = b
           /\ \A n \in Alive : run.fit[n].auc <= run.fit[b].auc
           /\ \A n \in Alive : run.fit[n].auc = run.fit[b].auc => Rank(b) <= Rank(n)

\* the first variant lower, the other two tied at the top: OC-SVM wins
C7_Witness ==
    /\ Trained /\ Alive = SeqToSet(DetectorNames)
    /\ run.fit["IsolationForest"].auc < run.fit["OneClassSVM"].auc
    /\ run.fit["OneClassSVM"].auc = run.fit["NS-RandomForest"].auc
    /\ run.sel.best_name = "OneClassSVM"

\* C8: a variant that raises is left out, the others are still trained and
\* compared, and the run fails only when all three raise.
C8_FailingVariantExcluded ==
    Trained =>
        /\ run.sel.trained = DetectorNames
        /\ {run.sel.results[i].name : i \in 1..Len(run.sel.results)} = Alive
        /\ (run.sel.raised # "") <=> (Alive = {})
        /\ (run.pc = "returned" /\ run.outcome.kind = "return"
              /\ run.outcome.value.status = "failed") <=> (Alive = {})

\* the first variant raises in predict, the run is done with another one
C8_Witness ==
    /\ run.pc = "returned"
    /\ run.fit # None
    /\ run.fit["IsolationForest"].err = "predict"
    /\ run.fit["OneClassSVM"].err = "train_model"
    /\ run.outcome.kind = "return"
    /\ run.outcome.value.status = "done"
    /\ run.outcome.value.model_type = "NS-RandomForest"

(***************************************************************************)
(* Orchestration and Model Store properties                                *)
(***************************************************************************)
\* C9 as claimed: every call returns skipped, failed or done; none raises.
C9_AlwaysStructuredOutcome ==
    run.pc = "returned" =>
        /\ run.outcome.kind = "return"
        /\ run.outcome.value.status \in {"skipped", "failed", "done"}

\* C10: when the metadata write fails after the detector was written, the
\* detector file is gone when the error reaches the caller, and a detector
\* file in the store always has the metadata of its save beside it.
C10_MetadataFailureRollsBack ==
    /\ (run.pc = "returned" /\ run.fault \in {"metadata", "metadata partial"}) =>
          /\ store[run.gateway_id].model = NoFile
          /\ run.outcome = Raise("OSError")
    /\ \A g \in Gateways :
          store[g].model.kind = "joblib" =>
              /\ store[g].meta.kind = "json"
              /\ store[g].meta.model_type = store[g].model.det.variant

\* the metadata write failed over a saved model: the model file is gone
C10_Witness ==
    /\ run.pc = "returned"
    /\ run.fault = "metadata"
    /\ run.before.model.kind = "joblib"
    /\ store[run.gateway_id].model = NoFile

(***************************************************************************)
(* Model Store properties, stated on the calls made                        *)
(***************************************************************************)
\* the save_model calls for gateway g among the calls h, by position
SavesOf(h, g) == {i \in 1..Len(h) : h[i].gateway_id = g}

\* what load_model returns for the artifact of the save with arguments a
Artifact(a, meta) ==
    /\ meta.model_type = a.model_type
    /\ meta.auc = a.auc
    /\ meta.feature_columns = a.feature_columns
    /\ meta.nodes = a.nodes
    /\ meta.num_rows = a.num_rows

\* C11 as claimed: a load_model that overlaps a save_model of its gateway
\* returns the whole artifact of one save (or finds none); it never returns
\* the detector of one save with the metadata of another and never trips
\* over a partly written file.
C11_LoadSeesWholeArtifact ==
    (/\ loader.op = "load_model" /\ loader.pc = "returned" /\ loader.overlap
     /\ \A i \in 1..Len(history) : history[i].status # "OSError") =>
        IF loader.outcome.kind = "raise"
        THEN loader.outcome.exc = "FileNotFoundError"
        ELSE \E i \in SavesOf(history, loader.gateway_id) :
                /\ loader.outcome.value.model = history[i].args.model
                /\ Artifact(history[i].args, loader.outcome.value.metadata)

\* C12: a load that follows a successful save returns the detector and the
\* metadata values passed to that save; for a gateway never saved the load
\* raises FileNotFoundError and model_exists is false.  (loader.saves are the
\* save_model calls made before the load was called.)
C12_SaveLoadRoundTrip ==
    (loader.pc = "returned" /\ ~loader.overlap) =>
        LET saves == SavesOf(loader.saves, loader.gateway_id)
            last  == loader.saves[SetMax(saves)]
        IN /\ (loader.op = "load_model" /\ saves # {} /\ last.status = "ok") =>
                  /\ loader.outcome.kind = "return"
                  /\ loader.outcome.value.model = last.args.model
                  /\ Artifact(last.args, loader.outcome.value.metadata)
           /\ (saves = {} /\ loader.op = "load_model") =>
                  loader.outcome = Raise("FileNotFoundError")
           /\ (saves = {} /\ loader.op = "model_exists") =>
                  loader.outcome = Return(FALSE)

\* the second artifact saved for a gateway is loaded back: AUC 0.875, 1200 rows
C12_Witness ==
    /\ loader.op = "load_model" /\ loader.pc = "returned" /\ ~loader.overlap
    /\ Cardinality(SavesOf(loader.saves, loader.gateway_id)) = 2
    /\ loader.saves[2].status = "ok"
    /\ loader.outcome.kind = "return"
    /\ loader.outcome.value.model.fit = 2
    /\ loader.outcome.value.metadata.auc = 875
    /\ loader.outcome.value.metadata.num_rows = 1200

(***************************************************************************)
(* Scorer: predict_anomalies                                               *)
(***************************************************************************)
\* the threshold of a call that passes none, in thousandths (0.5)
_ANOMALY_THRESHOLD == 500

\* the feature columns of a call that passes none (or an empty list)
DefaultFeatureColumns == <<"F", "H", "P">>

\* numpy astype(float) on the index, float(ts) on a timestamp
AsFloat(n) == Float(n * 1000)

\* a comparison with NaN is false
FloatLess_OrEqual(p, threshold) == ~p.nan /\ p.milli <= threshold
FloatLess(p, threshold) == ~p.nan /\ p.milli < threshold

\* DataFrame.empty: no rows or no columns
FrameEmpty(fh_df) == Len(fh_df.index) = 0 \/ Len(fh_df.columns) = 0

\* an Optional[List[str]] argument that is a list
List(items) == [tag |-> "list", items |-> items]

\* cols = feature_columns if feature_columns else [...], then those present
ScoreCols(fh_df, feature_columns) ==
    SelectSeq(IF feature_columns = None \/ feature_columns.items = <<>>
              THEN DefaultFeatureColumns ELSE feature_columns.items,
              LAMBDA c : c \in SeqToSet(fh_df.columns))

\* the time_rounded values, or the index as floats
ScoreTimestamps_Positions(fh_df) ==
    [i \in 1..Len(fh_df.index) |-> AsFloat(i - 1)]
ScoreTimestamps(fh_df) ==
    IF "time_rounded" \in SeqToSet(fh_df.columns)
    THEN fh_df.time_rounded
    ELSE [i \in 1..Len(fh_df.index) |-> AsFloat(fh_df.index[i])]

\* model.predict on the frame restricted to cols: the detector normalises and
\* reorders by the columns frozen at fit (KeyError when one is missing), then
\* sets class_prob on every row
DetectorPredict(model, cols) ==
    IF ~(SeqToSet(model.column_order) \subseteq SeqToSet(cols))
    THEN Raise("KeyError")
    ELSE IF model.fails THEN Raise("ValueError")
    ELSE Return(model.class_prob)

\* [float(ts) for ts, m in zip(timestamps, mask) if m]
RECURSIVE ZipSelect(_, _, _)
ZipSelect(timestamps, class_prob, threshold) ==
    IF timestamps = <<>> \/ class_prob = <<>> THEN <<>>
    ELSE (IF FloatLess(Head(class_prob), threshold)
          THEN <<Head(timestamps)>> ELSE <<>>)
         \o ZipSelect(Tail(timestamps), Tail(class_prob), threshold)

\* the try block and what follows it
Scored_NoCatch(timestamps, result, threshold) ==
    IF result.kind = "raise" THEN result
    ELSE Return(ZipSelect(timestamps, result.value, threshold))
Scored(timestamps, result, threshold) ==
    IF result.kind = "raise" THEN Return(<<>>)
    ELSE Return(ZipSelect(timestamps, result.value, threshold))

predict_anomalies(model, fh_df, threshold, feature_columns) ==
    IF FrameEmpty(fh_df) THEN Return(<<>>)
    ELSE Scored(ScoreTimestamps(fh_df),
                DetectorPredict(model, ScoreCols(fh_df, feature_columns)),
                threshold)

(***************************************************************************)
(* SpecScore: calls of predict_anomalies on bounded frames and detectors   *)
(***************************************************************************)
MaxRows == 3

\* the column sets of the frames scored (P may be absent; H may be too)
ScoreColumns == {<<>>, <<"F">>, <<"F", "H">>, <<"F", "H", "P">>}

\* bucket times, and an index that differs from them and from row positions
RowTime(i) == Float((600 + 60 * i) * 1000)
RowIndex(i) == 1700000 + 60 * i

\* a frame with n rows: a RangeIndex beside a time_rounded column, or an
\* index of Unix timestamps without one
ScoreFrame(n, columns, timed) ==
    [columns      |-> IF timed THEN <<"time_rounded">> \o columns ELSE columns,
     index        |-> [i \in 1..n |-> IF timed THEN i - 1 ELSE RowIndex(i)],
     time_rounded |-> IF timed THEN [i \in 1..n |-> RowTime(i)] ELSE <<>>]

\* class_prob values: below, at and above 0.5, and NaN
ProbValues == {Float(499), Float(500), Float(1000), NaN}

\* detectors by the columns frozen at fit and whether predict fails inside
ScoreDetectors ==
    {[column_order |-> <<"F", "H">>, fails |-> FALSE],
     [column_order |-> <<"F", "H", "P">>, fails |-> FALSE],
     [column_order |-> <<"F", "H">>, fails |-> TRUE]}

ScoreThresholds == {_ANOMALY_THRESHOLD, 1000}
ScoreFeatureColumns ==
    {None, List(<<>>), List(<<"F", "H">>), List(<<"F", "H", "P">>)}

WithProbs(d, class_prob) ==
    [column_order |-> d.column_order, fails |-> d.fails,
     class_prob |-> class_prob]

\* the calls made: every frame, detector, threshold and column list above
ScoreCalls ==
    {[pc |-> "called", model |-> WithProbs(c[4], c[7]),
      fh_df |-> ScoreFrame(c[1], c[2], c[3]), threshold |-> c[5],
      feature_columns |-> c[6], passed |-> None, outcome |-> Pending] :
        c \in {c \in (0..MaxRows) \X ScoreColumns \X BOOLEAN \X ScoreDetectors
                     \X ScoreThresholds \X ScoreFeatureColumns
                     \X UNION {[1..n -> ProbValues] : n \in 0..MaxRows} :
                 Len(c[7]) = c[1]}}

PredictAnomalies ==
    /\ scorer.pc = "called"
    /\ scorer' = [scorer EXCEPT
                    !.pc = "returned",
                    !.passed = IF FrameEmpty(scorer.fh_df) THEN None
                               ELSE List(ScoreCols(scorer.fh_df,
                                                   scorer.feature_columns)),
                    !.outcome = predict_anomalies(scorer.model, scorer.fh_df,
                                    scorer.threshold, scorer.feature_columns)]
    /\ UNCHANGED offScore

InitScore ==
    /\ db = <<>> /\ now = 0 /\ store = [g \in Gateways |-> EmptyDir]
    /\ runs = 0 /\ run = NoRun
    /\ StoreIdle /\ WebIdle /\ ArchiveIdle /\ LateIdle
    /\ scorer \in ScoreCalls

NextScore == PredictAnomalies

SpecScore == InitScore /\ [][NextScore]_vars

(***************************************************************************)
(* Scorer properties                                                       *)
(***************************************************************************)
\* the call returned after its detector's predict succeeded
ScorePredicted ==
    /\ scorer.pc = "returned"
    /\ ~FrameEmpty(scorer.fh_df)
    /\ DetectorPredict(scorer.model,
                       ScoreCols(scorer.fh_df, scorer.feature_columns)).kind
           = "return"

\* the rows whose timestamp the call returned, given timestamps are distinct
ScoreFlagged(ts, out) == {i \in 1..Len(ts) : ts[i] \in SeqToSet(out)}

\* C13: a row is flagged exactly when its class_prob is strictly below the
\* threshold; a row whose class_prob equals the threshold is not flagged.
C13_StrictlyBelowThreshold ==
    ScorePredicted =>
        /\ scorer.outcome.kind = "return"
        /\ \A i \in 1..Len(scorer.fh_df.index) :
               (ScoreTimestamps(scorer.fh_df)[i]
                    \in SeqToSet(scorer.outcome.value))
               <=> (/\ ~scorer.model.class_prob[i].nan
                    /\ scorer.model.class_prob[i].milli < scorer.threshold)

\* a row at exactly the threshold beside a row just below it
C13_Witness ==
    /\ ScorePredicted
    /\ scorer.threshold = _ANOMALY_THRESHOLD
    /\ Len(scorer.fh_df.index) = 3
    /\ scorer.model.class_prob = <<Float(500), Float(499), Float(1000)>>
    /\ scorer.outcome = Return(<<RowTime(2)>>)

\* the bucket timestamp of row i of the frames scored
ScoreRowStamp(fh_df, i) ==
    IF "time_rounded" \in SeqToSet(fh_df.columns)
    THEN RowTime(i) ELSE Float(RowIndex(i) * 1000)

\* the rows of the call whose class_prob is below the threshold
ScoreAnomalous ==
    {i \in 1..Len(scorer.fh_df.index) :
        /\ ~scorer.model.class_prob[i].nan
        /\ scorer.model.class_prob[i].milli < scorer.threshold}

\* C14: the call returns the bucket timestamps (time_rounded, or the index
\* when there is no such column) of exactly the anomalous rows, in input
\* order, never their positions; a frame without rows yields the empty list.
C14_TimestampsInInputOrder ==
    /\ ScorePredicted =>
          /\ scorer.outcome.kind = "return"
          /\ Len(scorer.outcome.value) = Cardinality(ScoreAnomalous)
          /\ \A k \in 1..Len(scorer.outcome.value) :
                \E i \in ScoreAnomalous :
                    /\ Cardinality({j \in ScoreAnomalous : j <= i}) = k
                    /\ scorer.outcome.value[k] = ScoreRowStamp(scorer.fh_df, i)
    /\ (scorer.pc = "returned" /\ Len(scorer.fh_df.index) = 0) =>
          scorer.outcome = Return(<<>>)

\* rows 1 and 3 of an untimed frame are anomalous: their index values come
\* back as floats, in that order
C14_Witness ==
    /\ ScorePredicted
    /\ "time_rounded" \notin SeqToSet(scorer.fh_df.columns)
    /\ Len(scorer.fh_df.index) = 3
    /\ ScoreAnomalous = {1, 3}
    /\ scorer.outcome = Return(<<Float(RowIndex(1) * 1000),
                                 Float(RowIndex(3) * 1000)>>)

\* the call returned after its detector's predict raised
ScoreFailed ==
    /\ scorer.pc = "returned"
    /\ ~FrameEmpty(scorer.fh_df)
    /\ DetectorPredict(scorer.model,
                       ScoreCols(scorer.fh_df, scorer.feature_columns)).kind
           = "raise"

\* C15: when the detector's predict fails, the call returns the empty list;
\* no call of predict_anomalies ends with an exception.
C15_PredictFailureCaught ==
    /\ ScoreFailed => scorer.outcome = Return(<<>>)
    /\ scorer.pc = "returned" => scorer.outcome.kind = "return"

\* a detector fitted on F, H and P scores a frame without P, one of whose
\* rows it would have flagged
C15_Witness ==
    /\ ScoreFailed
    /\ scorer.model.column_order = <<"F", "H", "P">>
    /\ ~scorer.model.fails
    /\ "P" \notin SeqToSet(scorer.fh_df.columns)
    /\ ScoreAnomalous # {}
    /\ scorer.outcome = Return(<<>>)

(***************************************************************************)
(* OAuth account linking: auth.py                                          *)
(***************************************************************************)
\* os.getenv at import; an unset variable and an empty one are both falsy
EXPECTED_CLIENT_ID == env.GOOGLE_HOME_CLIENT_ID
EXPECTED_CLIENT_SECRET == env.GOOGLE_HOME_CLIENT_SECRET

\* the lifetime of an access token, seconds
TokenLifetime == 3600

\* str(uuid.uuid4()): a value no other draw returns, here the k-th drawn for
\* its purpose (authorization code, access token, refresh token)
uuid4(purpose, k) == <<purpose, DigitChar(k)>>
NewCode == uuid4("c", Cardinality(DOMAIN OAUTH_CODES) + 1)
NewAccess == uuid4("a", Cardinality(DOMAIN OAUTH_TOKENS) + 1)
NewRefresh == uuid4("r", Cardinality(DOMAIN OAUTH_TOKENS) + 1)

\* request.form / request.headers: .get(k) is None when k is absent
Has(d, k) == k \in DOMAIN d
Get(d, k, default) == IF Has(d, k) THEN d[k] ELSE default

\* d[k] = v on a dict
Put(d, k, v) == [x \in DOMAIN d \cup {k} |-> IF x = k THEN v ELSE d[x]]

\* jsonify(body), status
Json(status, body) == [status |-> status, body |-> body]

\* what the properties compare a response against: the state at arrival
Before == [OAUTH_CODES |-> OAUTH_CODES, OAUTH_TOKENS |-> OAUTH_TOKENS,
           MOCK_DEVICES |-> MOCK_DEVICES, now |-> now]

Exchange(route, headers, request, response) ==
    [route |-> route, headers |-> headers, request |-> request,
     response |-> response, before |-> Before]

\* POST /auth: a fresh code bound to the e-mail of the form
authorize(form) ==
    /\ OAUTH_CODES' = Put(OAUTH_CODES, NewCode,
                          [client_id |-> form.client_id,
                           user_id |-> Get(form, "email", "unknown")])
    /\ http' = Exchange("/auth", <<>>, form,
                        [status |-> 302, code |-> NewCode])
    /\ UNCHANGED <<env, OAUTH_TOKENS, MOCK_DEVICES, mongo, now, offWeb>>

\* the two credential checks of POST /token
ClientRejected(form) ==
    \/ /\ EXPECTED_CLIENT_ID # ""
       /\ ~(Has(form, "client_id") /\ form.client_id = EXPECTED_CLIENT_ID)
    \/ /\ EXPECTED_CLIENT_SECRET # ""
       /\ ~(/\ Has(form, "client_secret")
            /\ form.client_secret = EXPECTED_CLIENT_SECRET)

\* code in OAUTH_CODES
CodeKnown(form) == Has(form, "code") /\ form.code \in DOMAIN OAUTH_CODES

\* the record stored for a token exchanged for a code
CodeToken_Unknown(code) ==
    [user_id |-> "unknown", expires_at |-> now + TokenLifetime]
CodeToken(code) ==
    [user_id |-> OAUTH_CODES[code].user_id, expires_at |-> now + TokenLifetime]

\* POST /token
token(form) ==
    /\ IF ClientRejected(form)
       THEN /\ http' = Exchange("/token", <<>>, form,
                                Json(400, [error |-> "invalid_client"]))
            /\ UNCHANGED OAUTH_TOKENS
       ELSE IF Get(form, "grant_type", "") = "authorization_code"
                 /\ CodeKnown(form)
       THEN /\ OAUTH_TOKENS' = Put(OAUTH_TOKENS, NewAccess,
                                   CodeToken(form.code))
            /\ http' = Exchange("/token", <<>>, form,
                          Json(200, [token_type |-> "Bearer",
                                     access_token |-> NewAccess,
                                     refresh_token |-> NewRefresh,
                                     expires_in |-> TokenLifetime]))
       ELSE IF Get(form, "grant_type", "") = "refresh_token"
       THEN /\ OAUTH_TOKENS' = Put(OAUTH_TOKENS, NewAccess,
                                   [user_id |-> "unknown",
                                    expires_at |-> now + TokenLifetime])
            /\ http' = Exchange("/token", <<>>, form,
                          Json(200, [token_type |-> "Bearer",
                                     access_token |-> NewAccess,
                                     expires_in |-> TokenLifetime]))
       ELSE /\ http' = Exchange("/token", <<>>, form,
                                Json(400, [error |-> "invalid_grant"]))
            /\ UNCHANGED OAUTH_TOKENS
    /\ UNCHANGED <<env, OAUTH_CODES, MOCK_DEVICES, mongo, now, offWeb>>

(***************************************************************************)
(* Smart-home webhook: fulfillment.py                                      *)
(***************************************************************************)
\* str.startswith
StartsWith(s, prefix) ==
    Len(s) >= Len(prefix) /\ SubSeq(s, 1, Len(prefix)) = prefix

\* str.split(sep) for a one-character sep: every sep cuts, empty pieces stay
RECURSIVE Split(_, _)
Split(s, sep) ==
    IF \A i \in 1..Len(s) : s[i] # sep THEN <<s>>
    ELSE <<SubSeq(s, 1, SetMin({i \in 1..Len(s) : s[i] = sep}) - 1)>>
         \o Split(SubSeq(s, SetMin({i \in 1..Len(s) : s[i] = sep}) + 1,
                         Len(s)), sep)

BearerPrefix == <<"B", "e", "a", "r", "e", "r", " ">>

\* OAUTH_TOKENS.get(token) and the expiry test
TokenInfo(t) ==
    IF t \notin DOMAIN OAUTH_TOKENS THEN None
    ELSE IF now > OAUTH_TOKENS[t].expires_at THEN None
    ELSE OAUTH_TOKENS[t]

verify_token(headers) ==
    IF \/ ~Has(headers, "Authorization")
       \/ headers.Authorization = <<>>
       \/ ~StartsWith(headers.Authorization, BearerPrefix)
    THEN None
    ELSE TokenInfo(Split(headers.Authorization, " ")[2])

\* _TYPE_META
SupportedTypes == {"F", "H"}
SensorName(type) == IF type = "F" THEN "Temperature" ELSE "Humidity"
SensorUnit(type) == IF type = "F" THEN "CELSIUS" ELSE "PERCENTAGE"
DefaultLabel(type) ==
    IF type = "F"
    THEN <<" ", "T", "e", "m", "p", " ", "S", "e", "n", "s", "o", "r">>
    ELSE <<" ", "H", "u", "m", "i", "d", "i", "t", "y", " ",
           "S", "e", "n", "s", "o", "r">>

\* n.get('longname') or n.get('shortname')
NickName(n) ==
    IF Has(n, "longname") /\ n.longname # <<>> THEN n.longname
    ELSE n.shortname

\* nick_map.get((gateway_id, node_id), default)
NickOf(nicks, doc, default) ==
    IF \E n \in nicks : n.gateway_id = doc.gateway_id /\ n.node_id = doc.node_id
    THEN NickName(CHOOSE n \in nicks :
                    n.gateway_id = doc.gateway_id /\ n.node_id = doc.node_id)
    ELSE default

_doc_to_gh_device(doc, nicks) ==
    [id     |-> doc.gateway_id \o <<"/">> \o doc.node_id \o <<"/", doc.type>>,
     type   |-> "action.devices.types.SENSOR",
     name   |-> NickOf(nicks, doc, doc.node_id \o DefaultLabel(doc.type)),
     sensor |-> SensorName(doc.type),
     unit   |-> SensorUnit(doc.type)]

\* profile.get('gateway_ids', []) if profile else []
GatewayIdsOf(agent_user_id) ==
    IF \E p \in mongo.user_profiles : p.email = agent_user_id
    THEN Get(CHOOSE p \in mongo.user_profiles : p.email = agent_user_id,
             "gateway_ids", {})
    ELSE {}

\* sensors_latest.find({gateway_id: {$in: ...}, type: {$in: ...}})
FindLatest_AnyType(gateway_ids) ==
    SelectSeq(mongo.sensors_latest, LAMBDA d : d.gateway_id \in gateway_ids)
FindLatest(gateway_ids) ==
    SelectSeq(mongo.sensors_latest,
              LAMBDA d : d.gateway_id \in gateway_ids
                         /\ d.type \in SupportedTypes)

SyncDevices(docs, nicks) ==
    [i \in 1..Len(docs) |-> _doc_to_gh_device(docs[i], nicks)]

handle_sync(request_id, agent_user_id) ==
    Json(200, [requestId |-> request_id,
               payload |-> [agentUserId |-> agent_user_id,
                            devices |-> SyncDevices(
                                FindLatest(GatewayIdsOf(agent_user_id)),
                                {n \in mongo.nicknames_col :
                                    n.gateway_id
                                        \in GatewayIdsOf(agent_user_id)})]])

OnOff == "action.devices.commands.OnOff"

\* for execution in command['execution']: an OnOff sets the device's 'on'
RECURSIVE Execute_First(_, _, _)
Execute_First(devices, device_id, execution) ==
    IF execution = <<>> THEN devices
    ELSE IF Head(execution).command = OnOff
    THEN [devices EXCEPT ![device_id].on = Head(execution).params.on]
    ELSE Execute_First(devices, device_id, Tail(execution))
RECURSIVE Execute(_, _, _)
Execute(devices, device_id, execution) ==
    IF execution = <<>> THEN devices
    ELSE Execute(IF Head(execution).command = OnOff
                 THEN [devices EXCEPT
                          ![device_id].on = Head(execution).params.on]
                 ELSE devices,
                 device_id, Tail(execution))

\* the (device id, execution list) pairs of a payload, in loop order
RECURSIVE Targets(_)
Targets(commands) ==
    IF commands = <<>> THEN <<>>
    ELSE [i \in 1..Len(Head(commands).devices) |->
             [id |-> Head(commands).devices[i].id,
              execution |-> Head(commands).execution]]
         \o Targets(Tail(commands))

\* the devices after the loops of handle_execute
RECURSIVE ExecuteAll(_, _)
ExecuteAll(devices, targets) ==
    IF targets = <<>> THEN devices
    ELSE ExecuteAll(IF Head(targets).id \in DOMAIN devices
                    THEN Execute(devices, Head(targets).id,
                                 Head(targets).execution)
                    ELSE devices,
                    Tail(targets))

\* the commands list as jsonify serialises it: 'states' refers to the
\* device's state dict, so it shows the state after the loops
ExecuteResults(devices, targets) ==
    [i \in 1..Len(targets) |->
        IF targets[i].id \in DOMAIN devices
        THEN [ids |-> <<targets[i].id>>, status |-> "SUCCESS",
              states |-> devices[targets[i].id]]
        ELSE [ids |-> <<targets[i].id>>, status |-> "ERROR",
              errorCode |-> "deviceNotFound"]]

handle_execute(request_id, devices, targets) ==
    Json(200, [requestId |-> request_id,
               payload |-> [commands |-> ExecuteResults(devices, targets)]])

Sync == "action.devices.SYNC"
Exec == "action.devices.EXECUTE"

\* POST /fulfillment for an authorized request
Dispatch(headers, body, user_info) ==
    IF body.inputs[1].intent = Sync
    THEN /\ http' = Exchange("/fulfillment", headers, body,
                             handle_sync(body.requestId, user_info.user_id))
         /\ UNCHANGED MOCK_DEVICES
    ELSE IF body.inputs[1].intent = Exec
    THEN /\ MOCK_DEVICES' =
                ExecuteAll(MOCK_DEVICES,
                           Targets(body.inputs[1].payload.commands))
         /\ http' = Exchange("/fulfillment", headers, body,
                        handle_execute(body.requestId, MOCK_DEVICES',
                            Targets(body.inputs[1].payload.commands)))
    ELSE /\ http' = Exchange("/fulfillment", headers, body,
                             Json(400, [error |-> "unknown_intent"]))
         /\ UNCHANGED MOCK_DEVICES

fulfillment(headers, body) ==
    /\ IF verify_token(headers) = None
       THEN /\ http' = Exchange("/fulfillment", headers, body,
                                Json(401, [error |-> "invalid_grant"]))
            /\ UNCHANGED MOCK_DEVICES
       ELSE Dispatch(headers, body, verify_token(headers))
    /\ UNCHANGED <<env, OAUTH_CODES, OAUTH_TOKENS, mongo, now, offWeb>>

(***************************************************************************)
(* SpecOAuth and SpecHome: account linking and token exchange; webhook     *)
(* requests with the tokens so obtained                                    *)
(***************************************************************************)
MaxCodes == 1      \* authorization codes issued
MaxTokens == 1     \* access tokens issued
MaxHours == 2      \* how far the clock advances, in token lifetimes

LinkedEnv == [GOOGLE_HOME_CLIENT_ID |-> "google",
              GOOGLE_HOME_CLIENT_SECRET |-> "s3cret"]

G1 == <<"g", "1">>
G2 == <<"g", "2">>
Latest(g, n, t) == [gateway_id |-> g, node_id |-> n, type |-> t]

\* alice owns g1, carol's profile lists no gateways, bob has no profile
HomeMongo ==
    [user_profiles  |-> {[email |-> "alice", gateway_ids |-> {G1}],
                         [email |-> "carol"]},
     nicknames_col  |-> {[gateway_id |-> G1, node_id |-> <<"1">>,
                          longname |-> <<"A", "t", "t", "i", "c">>],
                         [gateway_id |-> G2, node_id |-> <<"2">>,
                          shortname |-> <<"S", "h", "e", "d">>]},
     sensors_latest |-> <<Latest(G1, <<"1">>, "F"), Latest(G2, <<"2">>, "F"),
                          Latest(G1, <<"1">>, "P"), Latest(G1, <<"3">>, "H"),
                          Latest(G2, <<"2">>, "H")>>]

\* the linking form as alice and as bob submit it
AuthForms ==
    {[client_id |-> "google", email |-> "alice"],
     [client_id |-> "evil", email |-> "bob"]}

Bogus == <<"z", "z">>

\* token requests: right, wrong and missing credentials; known, unknown and
\* missing codes; supported, unsupported and missing grant types
TokenForms ==
    {[client_id |-> "google", client_secret |-> "s3cret",
      grant_type |-> "authorization_code", code |-> c] :
        c \in DOMAIN OAUTH_CODES \cup DOMAIN OAUTH_TOKENS \cup {Bogus}}
    \cup {[client_id |-> "evil", client_secret |-> "s3cret",
           grant_type |-> "authorization_code", code |-> c] :
            c \in DOMAIN OAUTH_CODES \cup {Bogus}}
    \cup {[client_id |-> "google", client_secret |-> "guess",
           grant_type |-> "authorization_code", code |-> Bogus],
          [grant_type |-> "authorization_code", code |-> Bogus],
          [client_id |-> "google", client_secret |-> "s3cret",
           grant_type |-> "authorization_code"],
          [client_id |-> "google", client_secret |-> "s3cret",
           grant_type |-> "refresh_token", refresh_token |-> Bogus],
          [client_id |-> "google", client_secret |-> "s3cret",
           grant_type |-> "password"],
          [client_id |-> "google", client_secret |-> "s3cret"]}

Plain == [Content_Type |-> "application/json"]
WithAuthorization(h) ==
    [Content_Type |-> "application/json", Authorization |-> h]

\* Authorization headers that name a token after 'Bearer ': alone, and with
\* more text after it
BearerHeaders ==
    {BearerPrefix \o t : t \in DOMAIN OAUTH_TOKENS \cup {Bogus}}
    \cup {BearerPrefix \o t \o <<" ", "x">> : t \in DOMAIN OAUTH_TOKENS}

\* headers of another shape: another scheme, two spaces, no token, empty
OtherHeaders ==
    {<<"N", "o", "t">> \o BearerPrefix \o t : t \in DOMAIN OAUTH_TOKENS}
    \cup {<<"B", "e", "a", "r", "e", "r", " ", " ">> \o t :
            t \in DOMAIN OAUTH_TOKENS}
    \cup {BearerPrefix, <<>>}

Turn(on) == [command |-> OnOff, params |-> [on |-> on]]
Dim == [command |-> "action.devices.commands.BrightnessAbsolute",
        params |-> [brightness |-> 50]]
Command(ids, execution) ==
    [devices |-> [i \in 1..Len(ids) |-> [id |-> ids[i]]],
     execution |-> execution]

ExecutePayloads ==
    {[commands |-> <<Command(<<"device_1">>, <<Turn(TRUE)>>)>>],
     [commands |-> <<Command(<<"device_1">>, <<Turn(FALSE)>>)>>],
     [commands |-> <<Command(<<"ghost">>, <<Turn(TRUE)>>)>>],
     [commands |-> <<Command(<<"device_1">>, <<Turn(TRUE), Dim, Turn(FALSE)>>)>>],
     [commands |-> <<Command(<<"device_1">>, <<Turn(FALSE)>>),
                     Command(<<"ghost", "device_1">>, <<Dim, Turn(TRUE)>>)>>]}

\* the payloads that switch the plug on and off
SwitchPayloads ==
    {[commands |-> <<Command(<<"device_1">>, <<Turn(on)>>)>>] :
        on \in BOOLEAN}

Body(intent, payload) ==
    [requestId |-> "r", inputs |-> <<[intent |-> intent, payload |-> payload]>>]

FulfillmentBodies ==
    {Body(Exec, p) : p \in ExecutePayloads}
    \cup {Body(Sync, [commands |-> <<>>]),
          Body("action.devices.DISCONNECT", [commands |-> <<>>])}

PostAuth(form) ==
    /\ Cardinality(DOMAIN OAUTH_CODES) < MaxCodes
    /\ authorize(form)

PostToken(form) ==
    /\ Cardinality(DOMAIN OAUTH_TOKENS) < MaxTokens
    /\ token(form)

PostFulfillment(headers, body) == fulfillment(headers, body)

\* an hour passes
Tick ==
    /\ now < MaxHours * TokenLifetime
    /\ now' = now + TokenLifetime
    /\ UNCHANGED <<webVars, offWeb>>

\* the exchange of a code by a client with the right credentials
GoodTokenForms ==
    {[client_id |-> "google", client_secret |-> "s3cret",
      grant_type |-> "authorization_code", code |-> c] :
        c \in DOMAIN OAUTH_CODES}

InitWeb ==
    /\ db = <<>> /\ now = 0 /\ store = [g \in Gateways |-> EmptyDir]
    /\ runs = 0 /\ run = NoRun
    /\ StoreIdle /\ ScoreIdle /\ ArchiveIdle /\ LateIdle
    /\ OAUTH_CODES = EmptyDict /\ OAUTH_TOKENS = EmptyDict
    /\ MOCK_DEVICES = InitialDevices
    /\ mongo = HomeMongo
    /\ http = NoHttp

InitOAuth == InitWeb /\ env \in {NoEnv, LinkedEnv}

NextOAuth ==
    \/ \E form \in AuthForms : PostAuth(form)
    \/ \E form \in TokenForms : PostToken(form)
    \/ Tick

SpecOAuth == InitOAuth /\ [][NextOAuth]_vars

InitHome == InitWeb /\ env = LinkedEnv

NextHome ==
    \/ \E form \in AuthForms : PostAuth(form)
    \/ \E form \in GoodTokenForms : PostToken(form)
    \/ \E h \in BearerHeaders, body \in FulfillmentBodies :
          PostFulfillment(WithAuthorization(h), body)
    \/ \E p \in SwitchPayloads :
          \/ PostFulfillment(Plain, Body(Exec, p))
          \/ \E h \in OtherHeaders :
                PostFulfillment(WithAuthorization(h), Body(Exec, p))
    \/ Tick

SpecHome == InitHome /\ [][NextHome]_vars

(***************************************************************************)
(* Token exchange properties, stated on the last exchange                  *)
(***************************************************************************)
\* the last request was POST /token with grant_type=authorization_code
CodeExchange ==
    /\ http.route = "/token"
    /\ Has(http.request, "grant_type")
    /\ http.request.grant_type = "authorization_code"

\* ... and its code was not in OAUTH_CODES
UnknownCode ==
    /\ CodeExchange
    /\ ~(/\ Has(http.request, "code")
         /\ http.request.code \in DOMAIN http.before.OAUTH_CODES)

\* the last request was POST /token with a grant type the route does not know
UnsupportedGrant ==
    /\ http.route = "/token"
    /\ ~(/\ Has(http.request, "grant_type")
         /\ http.request.grant_type \in {"authorization_code", "refresh_token"})

\* the request carried the client id and secret the server expects, or the
\* server expects none
ClientAccepted ==
    /\ env.GOOGLE_HOME_CLIENT_ID # "" =>
          /\ Has(http.request, "client_id")
          /\ http.request.client_id = env.GOOGLE_HOME_CLIENT_ID
    /\ env.GOOGLE_HOME_CLIENT_SECRET # "" =>
          /\ Has(http.request, "client_secret")
          /\ http.request.client_secret = env.GOOGLE_HOME_CLIENT_SECRET

\* a code exchange that answered 200 presented a code of OAUTH_CODES and
\* recorded a new Bearer token of 3600 s for the user of that code
IssuedForKnownCode ==
    (CodeExchange /\ http.response.status = 200) =>
        /\ Has(http.request, "code")
        /\ http.request.code \in DOMAIN http.before.OAUTH_CODES
        /\ http.response.body.token_type = "Bearer"
        /\ http.response.body.expires_in = 3600
        /\ http.response.body.access_token \notin DOMAIN http.before.OAUTH_TOKENS
        /\ http.response.body.access_token \in DOMAIN OAUTH_TOKENS
        /\ OAUTH_TOKENS[http.response.body.access_token].user_id
              = http.before.OAUTH_CODES[http.request.code].user_id
        /\ OAUTH_TOKENS[http.response.body.access_token].expires_at
              = http.before.now + 3600

\* every code of OAUTH_CODES was handed out by POST /auth
CodesIssuedByAuth ==
    /\ \A c \in DOMAIN OAUTH_CODES : c[1] = "c"
    /\ (http.route = "/auth") =>
          /\ http.response.code \in DOMAIN OAUTH_CODES
          /\ http.response.code \notin DOMAIN http.before.OAUTH_CODES

\* C16 as claimed: a token is issued for a code exchange only when the code
\* is one POST /auth put in OAUTH_CODES; an unknown code or an unsupported
\* grant type gets 400 invalid_grant and OAUTH_TOKENS stays as it was.
C16_UnknownCodeInvalidGrant ==
    /\ IssuedForKnownCode
    /\ CodesIssuedByAuth
    /\ (UnknownCode \/ UnsupportedGrant) =>
          /\ http.response = Json(400, [error |-> "invalid_grant"])
          /\ OAUTH_TOKENS = http.before.OAUTH_TOKENS

\* C16 amended: as above, but a request whose client credentials the server
\* rejects gets 400 invalid_client whatever its code or grant type; only a
\* request that passes that check gets invalid_grant.
C16_UnknownCodeRejected ==
    /\ IssuedForKnownCode
    /\ CodesIssuedByAuth
    /\ (UnknownCode \/ UnsupportedGrant) =>
          /\ http.response =
                Json(400, [error |-> IF ClientAccepted THEN "invalid_grant"
                                     ELSE "invalid_client"])
          /\ OAUTH_TOKENS = http.before.OAUTH_TOKENS

\* bob's code is exchanged an hour after the server started: the token is
\* bob's and expires at 7200
C16_Witness ==
    /\ CodeExchange /\ http.response.status = 200
    /\ env = LinkedEnv
    /\ http.before.OAUTH_CODES[http.request.code].user_id = "bob"
    /\ OAUTH_TOKENS[http.response.body.access_token]
          = [user_id |-> "bob", expires_at |-> 7200]

(***************************************************************************)
(* Webhook properties, stated on the last exchange                         *)
(***************************************************************************)
Webhook == http.route = "/fulfillment"

\* the tokens of OAUTH_TOKENS that had not expired when the request arrived
LiveTokens ==
    {t \in DOMAIN http.before.OAUTH_TOKENS :
        http.before.now <= http.before.OAUTH_TOKENS[t].expires_at}

\* the Authorization header is 'Bearer <t>' for a live token t
BearerOfLiveToken ==
    /\ Has(http.headers, "Authorization")
    /\ \E t \in LiveTokens : http.headers.Authorization = BearerPrefix \o t

\* C17 as claimed: the webhook handles an intent only for a header
\* 'Bearer <t>' with t an unexpired key of OAUTH_TOKENS; any other request is
\* answered 401 and leaves every device as it was.
C17_OnlyBearerOfLiveToken ==
    Webhook =>
        /\ http.response.status # 401 => BearerOfLiveToken
        /\ ~BearerOfLiveToken =>
              /\ http.response = Json(401, [error |-> "invalid_grant"])
              /\ MOCK_DEVICES = http.before.MOCK_DEVICES

\* the user the request was handled for
AgentOf(t) == http.before.OAUTH_TOKENS[t].user_id
Handled(intent) ==
    /\ Webhook /\ http.response.status = 200
    /\ http.request.inputs[1].intent = intent

\* the OnOff executions a request addresses to device d, in request order:
\* <<command, device, execution>> positions
OnOffsFor(d) ==
    LET commands == http.request.inputs[1].payload.commands
    IN {p \in (1..Len(commands)) \X (1..2) \X (1..3) :
          /\ p[2] <= Len(commands[p[1]].devices)
          /\ commands[p[1]].devices[p[2]].id = d
          /\ p[3] <= Len(commands[p[1]].execution)
          /\ commands[p[1]].execution[p[3]].command = OnOff}
Later(p, q) ==
    \/ p[1] > q[1]
    \/ p[1] = q[1] /\ p[2] > q[2]
    \/ p[1] = q[1] /\ p[2] = q[2] /\ p[3] >= q[3]
LastOnOff(d) ==
    LET p == CHOOSE p \in OnOffsFor(d) : \A q \in OnOffsFor(d) : Later(p, q)
    IN http.request.inputs[1].payload.commands[p[1]].execution[p[3]].params.on

\* the device ids of a request, in request order
RequestedIds ==
    LET commands == http.request.inputs[1].payload.commands
    IN {<<c, i>> \in (1..Len(commands)) \X (1..2) :
            i <= Len(commands[c].devices)}

\* C18: an authorized EXECUTE leaves each known device's 'on' at the value
\* of the last OnOff addressed to it (untouched when there is none) and
\* answers SUCCESS with the device's id and state; an unknown id is answered
\* ERROR deviceNotFound and changes no device.
C18_ExecuteSetsLastOnOff ==
    Handled(Exec) =>
        LET commands == http.request.inputs[1].payload.commands
            results  == http.response.body.payload.commands
        IN /\ \A d \in DOMAIN MOCK_DEVICES :
                 /\ MOCK_DEVICES[d].on =
                        IF OnOffsFor(d) = {} THEN http.before.MOCK_DEVICES[d].on
                        ELSE LastOnOff(d)
                 /\ MOCK_DEVICES[d].online = http.before.MOCK_DEVICES[d].online
           /\ DOMAIN MOCK_DEVICES = DOMAIN http.before.MOCK_DEVICES
           /\ Len(results) = Cardinality(RequestedIds)
           /\ \A p \in RequestedIds :
                 LET id == commands[p[1]].devices[p[2]].id
                     r  == results[Cardinality({q \in RequestedIds :
                                                  Later(<<p[1], p[2], 1>>,
                                                        <<q[1], q[2], 1>>)})]
                 IN IF id \in DOMAIN http.before.MOCK_DEVICES
                    THEN r = [ids |-> <<id>>, status |-> "SUCCESS",
                              states |-> MOCK_DEVICES[id]]
                    ELSE r = [ids |-> <<id>>, status |-> "ERROR",
                              errorCode |-> "deviceNotFound"]

\* the plug is on; one request switches it off, then on again, and names a
\* device that does not exist
C18_Witness ==
    /\ Handled(Exec)
    /\ http.before.MOCK_DEVICES.device_1.on
    /\ Len(http.request.inputs[1].payload.commands) = 2
    /\ MOCK_DEVICES.device_1.on
    /\ http.response.body.payload.commands[2].errorCode = "deviceNotFound"
    /\ http.response.body.payload.commands[3].status = "SUCCESS"

\* the gateways listed in the profile of user u (none without a profile)
ProfileGateways(u) ==
    UNION {IF Has(p, "gateway_ids") THEN p.gateway_ids ELSE {} :
             p \in {q \in mongo.user_profiles : q.email = u}}

\* C19: an authorized SYNC returns only devices of latest readings of type F
\* or H from gateways listed in the profile of the token's user; without a
\* profile the list is empty.
C19_SyncOnlyOwnGateways ==
    Handled(Sync) =>
        \E t \in LiveTokens :
            /\ StartsWith(http.headers.Authorization, BearerPrefix \o t)
            /\ http.response.body.payload.agentUserId = AgentOf(t)
            /\ \A i \in 1..Len(http.response.body.payload.devices) :
                  \E k \in 1..Len(mongo.sensors_latest) :
                     LET doc == mongo.sensors_latest[k]
                     IN /\ doc.type \in {"F", "H"}
                        /\ doc.gateway_id \in ProfileGateways(AgentOf(t))
                        /\ http.response.body.payload.devices[i].id =
                              doc.gateway_id \o <<"/">> \o doc.node_id
                                  \o <<"/", doc.type>>
            /\ (~\E p \in mongo.user_profiles : p.email = AgentOf(t)) =>
                  http.response.body.payload.devices = <<>>

\* alice's SYNC lists g1/1/F and g1/3/H and neither g1's P nor g2's readings
C19_Witness ==
    /\ Handled(Sync)
    /\ http.response.body.payload.agentUserId = "alice"
    /\ Len(http.response.body.payload.devices) = 2
    /\ http.response.body.payload.devices[1].id = <<"g", "1", "/", "1", "/", "F">>
    /\ http.response.body.payload.devices[2].id = <<"g", "1", "/", "3", "/", "H">>

(***************************************************************************)
(* Archive utility: archivedb.py                                           *)
(***************************************************************************)
DaysPerMonth == 30

\* cutoff_timestamp(months): now minus 30 days per month
cutoff_timestamp(months) == now - months * DaysPerMonth * SecondsPerDay

\* {'time': {'$lte': cutoff_ts}} on the Sensors collection
Expired(collection, cutoff_ts) ==
    SelectSeq(collection, LAMBDA doc : doc.time <= cutoff_ts)
Kept(collection, cutoff_ts) ==
    SelectSeq(collection, LAMBDA doc : doc.time > cutoff_ts)

\* json.dumps(doc, cls=BSONEncoder) + '\n': one line of the archive
JsonLine(doc) == [json |-> doc]

\* the lines archive_to_file writes: find(qry).sort('time', 1)
ArchiveLines(collection, cutoff_ts) ==
    [i \in 1..Len(Expired(collection, cutoff_ts)) |->
        JsonLine(SortSeq(Expired(collection, cutoff_ts),
                         LAMBDA a, b : a.time < b.time)[i])]

\* verify_archive: the file's non-blank lines number expected_count
verify_archive_Always(file, expected_count) == TRUE
verify_archive(file, expected_count) == Len(file) = expected_count

\* main() from option parsing to the dry-run exit
ArchiveStart(remove, months) ==
    /\ archiver.pc = "idle"
    /\ archiver' =
          IF ~remove
          THEN [archiver EXCEPT !.pc = "exit", !.remove = FALSE,
                                !.cutoff_ts = cutoff_timestamp(months),
                                !.count = Len(Expired(db, cutoff_timestamp(months))),
                                !.status = "dry run"]
          ELSE [archiver EXCEPT !.pc = "archive", !.remove = TRUE,
                                !.cutoff_ts = cutoff_timestamp(months)]
    /\ UNCHANGED <<db, now, offArchive>>

\* archive_to_file and the 'Nothing to archive' exit
ArchiveToFile ==
    /\ archiver.pc = "archive"
    /\ archiver' =
          IF Expired(db, archiver.cutoff_ts) = <<>>
          THEN [archiver EXCEPT !.pc = "exit", !.count = 0,
                                !.status = "nothing to archive"]
          ELSE [archiver EXCEPT !.pc = "verify",
                                !.file = ArchiveLines(db, archiver.cutoff_ts),
                                !.written = TRUE,
                                !.count = Len(Expired(db, archiver.cutoff_ts))]
    /\ UNCHANGED <<db, now, offArchive>>

\* gzip.open or a write raises: the run ends with the traceback
ArchiveWriteFails ==
    /\ archiver.pc = "archive"
    /\ Expired(db, archiver.cutoff_ts) # <<>>
    /\ archiver' = [archiver EXCEPT !.pc = "exit", !.status = "OSError"]
    /\ UNCHANGED <<db, now, offArchive>>

\* the file loses its tail on disk before it is read back
ArchiveFileDamaged ==
    /\ archiver.pc = "verify"
    /\ archiver.file # <<>>
    /\ archiver' = [archiver EXCEPT
                      !.file = SubSeq(archiver.file, 1, Len(archiver.file) - 1)]
    /\ UNCHANGED <<db, now, offArchive>>

\* verify_archive and the sys.exit(1) on failure
ArchiveVerify ==
    /\ archiver.pc = "verify"
    /\ archiver' =
          IF verify_archive(archiver.file, archiver.count)
          THEN [archiver EXCEPT !.pc = "delete"]
          ELSE [archiver EXCEPT !.pc = "exit",
                                !.status = "verification failed"]
    /\ UNCHANGED <<db, now, offArchive>>

\* delete_archived_records, then the metadata sidecar
ArchiveDelete ==
    /\ archiver.pc = "delete"
    /\ db' = Kept(db, archiver.cutoff_ts)
    /\ archiver' = [archiver EXCEPT
                      !.pc = "exit", !.status = "done",
                      !.meta = [records_archived |-> archiver.count,
                                records_deleted |->
                                    Len(Expired(db, archiver.cutoff_ts))]]
    /\ UNCHANGED <<now, offArchive>>

MaxInserts == 1    \* readings inserted while the utility runs

\* the ingestion inserts a reading while the utility runs
SensorInsert(doc) ==
    /\ Len(archiver.seen) < Len(archiver.start) + MaxInserts
    /\ db' = Append(db, doc)
    /\ archiver' = [archiver EXCEPT !.seen = Append(archiver.seen, doc)]
    /\ UNCHANGED <<now, offArchive>>

(***************************************************************************)
(* SpecArchive: one run of the utility beside the ingestion                *)
(***************************************************************************)
\* the run starts 200 days after the epoch: the 6-month cutoff is 1728000,
\* the 1-month cutoff 14688000
ArchiveNow == 200 * SecondsPerDay

Sensor(at) == Reading("gw1", <<"1">>, "F", <<"7", "0">>, at)

\* collections: empty, nothing old enough, and readings on both sides of
\* both cutoffs, stored out of time order
SensorsCollections ==
    {<<>>,
     <<Sensor(17000000)>>,
     <<Sensor(1728001), Sensor(17000000), Sensor(1728000), Sensor(1000)>>}

\* a late reading with an old timestamp, and a current one
InsertedDocs == {Sensor(500), Sensor(17279000)}

ArchiveMonths == {1, 6}

InitArchive ==
    /\ db \in SensorsCollections
    /\ now = ArchiveNow
    /\ store = [g \in Gateways |-> EmptyDir]
    /\ runs = 0 /\ run = NoRun
    /\ StoreIdle /\ ScoreIdle /\ WebIdle /\ LateIdle
    /\ archiver = [pc |-> "idle", remove |-> FALSE, cutoff_ts |-> 0,
                   count |-> 0, file |-> <<>>, written |-> FALSE,
                   status |-> "", meta |-> None, start |-> db, seen |-> db]

NextArchive ==
    \/ \E remove \in BOOLEAN, months \in ArchiveMonths :
          ArchiveStart(remove, months)
    \/ ArchiveToFile
    \/ ArchiveWriteFails
    \/ ArchiveFileDamaged
    \/ ArchiveVerify
    \/ ArchiveDelete
    \/ \E doc \in InsertedDocs : SensorInsert(doc)

SpecArchive == InitArchive /\ [][NextArchive]_vars

(***************************************************************************)
(* Archive properties                                                      *)
(***************************************************************************)
\* the documents the collection held or received and no longer holds
Deleted == SeqToSet(archiver.seen) \ SeqToSet(db)

\* C20: documents leave the Sensors collection only in a --remove run whose
\* archive file was written and counted back in full; a dry run, a run with
\* nothing to archive and a run whose verification fails delete nothing.
C20_DeleteOnlyAfterVerifiedArchive ==
    /\ Deleted # {} =>
          /\ archiver.remove
          /\ archiver.written
          /\ archiver.count > 0
          /\ Len(archiver.file) = archiver.count
          /\ archiver.status = "done"
    /\ (\/ ~archiver.remove
        \/ archiver.status \in {"dry run", "nothing to archive",
                                "verification failed", "OSError"}) =>
          Deleted = {}

\* a --remove run archived and deleted the readings up to the cutoff and
\* left the later ones
C20_Witness ==
    /\ archiver.status = "done"
    /\ archiver.remove
    /\ Cardinality(Deleted) >= 2
    /\ Len(archiver.file) = archiver.meta.records_archived
    /\ db # <<>>

\* the documents of the lines of the archive file
Archived == {archiver.file[i].json : i \in 1..Len(archiver.file)}

\* C29 as claimed: whatever a --remove run deleted is in the archive file it
\* wrote, also when readings with time <= cutoff arrive between the archive
\* pass and the delete.
C29_DeletedAreArchived ==
    archiver.status = "done" => Deleted \subseteq Archived

(***************************************************************************)
(* Feature Aligner properties on the aligned rows                          *)
(***************************************************************************)
\* the last call pivoted and dropped incomplete rows
Aligned == run.pc # "idle" /\ run.gw.exit \in {"too few rows", "ok"}

\* the usable readings of key (n, t) whose time is in [b, b + width)
InBucket(usable, n, t, b, width) ==
    {i \in usable : /\ db[i].node_id = n /\ db[i].type = t
                    /\ b <= db[i].time /\ db[i].time < b + width}

\* C24: where a bucket holds several readings of one (node, signal) key, the
\* aligned row carries the value of the first of them in query order.
C24_FirstReadingWins ==
    Aligned =>
        LET usable == Usable
        IN \A k \in 1..Len(run.gw.result) : \A pr \in Observed(usable) :
              LET row  == run.gw.result[k]
                  hits == InBucket(usable, pr[1], pr[2], row.time_rounded,
                                   run.gw.bucket_secs)
              IN hits # {} =>
                    row.vals[pr[1] \o <<"_", pr[2]>>]
                        = _clean(db[SetMin(hits)].value)

\* a bucket of an aligned row holds two readings of one key with different
\* values
C24_Witness ==
    /\ Aligned
    /\ \E k \in 1..Len(run.gw.result) : \E i, j \in Usable :
          /\ i < j
          /\ db[i].node_id = db[j].node_id /\ db[i].type = db[j].type
          /\ run.gw.result[k].time_rounded <= db[i].time
          /\ run.gw.result[k].time_rounded <= db[j].time
          /\ db[i].time < run.gw.result[k].time_rounded + run.gw.bucket_secs
          /\ db[j].time < run.gw.result[k].time_rounded + run.gw.bucket_secs
          /\ _clean(db[i].value) # _clean(db[j].value)

\* C25: every time_rounded is a multiple of the width, the rows' time_rounded
\* values are distinct, and every value of a row comes from a reading with
\* time_rounded <= time < time_rounded + width.
C25_BucketIsFloorMultiple ==
    Aligned =>
        LET usable == Usable
            width  == run.gw.bucket_secs
        IN /\ \A k \in 1..Len(run.gw.result) :
                 run.gw.result[k].time_rounded % width = 0
           /\ \A k, m \in 1..Len(run.gw.result) :
                 k < m => run.gw.result[k].time_rounded
                              # run.gw.result[m].time_rounded
           /\ \A k \in 1..Len(run.gw.result) : \A pr \in Observed(usable) :
                 LET row == run.gw.result[k]
                 IN ~row.vals[pr[1] \o <<"_", pr[2]>>].nan <=>
                       InBucket(usable, pr[1], pr[2], row.time_rounded, width)
                           # {}

\* a matrix of rows 60 s apart whose readings are not at multiples of 60
C25_Witness ==
    /\ Aligned
    /\ run.gw.bucket_secs = 60
    /\ Len(run.gw.result) >= 20
    /\ \E i \in Usable : db[i].time % 60 # 0

(***************************************************************************)
(* Orchestration: what a run that saves nothing leaves in the Model Store  *)
(***************************************************************************)
\* the run returned a result of status skipped or failed
ReturnedWithout ==
    /\ run.pc = "returned"
    /\ run.outcome.kind = "return"
    /\ run.outcome.value.status \in {"skipped", "failed"}

\* C28: when train_for_gateway returns status skipped or failed, every
\* gateway's directory, model file and metadata file are what they were when
\* the call was made.
C28_SkippedOrFailedLeavesStore ==
    ReturnedWithout => store = run.stored

\* a failed run of a gateway that has a saved artifact
C28_Witness ==
    /\ ReturnedWithout
    /\ run.outcome.value.status = "failed"
    /\ run.stored[run.gateway_id].model.kind = "joblib"
    /\ run.stored[run.gateway_id].meta.kind = "json"

\* the artifact of the run's gateway when the call was made, if it had one
HadArtifact ==
    /\ run.pc = "returned"
    /\ run.before.model.kind = "joblib"
    /\ run.before.meta.kind = "json"

\* the run ended without a save that completed
NotSuperseded ==
    ~(run.outcome.kind = "return" /\ run.outcome.value.status = "done")

\* C21 as claimed: the artifact a gateway had when a run began is still there,
\* detector and metadata, after a run that is skipped, that fails, or whose
\* save_model raises; only a save that completes replaces it.
C21_ArtifactPersistsUntilSuperseded ==
    (HadArtifact /\ NotSuperseded) =>
        /\ store[run.gateway_id].model = run.before.model
        /\ store[run.gateway_id].meta = run.before.meta

(***************************************************************************)
(* Scorer: the columns handed to the detector                              *)
(***************************************************************************)
\* no feature-column list came with the model (None, or an empty list)
NoneRecorded ==
    scorer.feature_columns = None \/ scorer.feature_columns.items = <<>>

\* C23 as claimed: the detector is handed the requested columns that the frame
\* holds, and when no list was recorded the requested columns are F and H.
C23_FallbackIsFAndH ==
    (scorer.pc = "returned" /\ ~FrameEmpty(scorer.fh_df)) =>
        scorer.passed =
            List(SelectSeq(IF NoneRecorded THEN <<"F", "H">>
                           ELSE scorer.feature_columns.items,
                           LAMBDA c : c \in SeqToSet(scorer.fh_df.columns)))

(***************************************************************************)
(* SpecFit: train_and_select_best called by two threads of one process.    *)
(* What a fit yields is a function of its training matrix and of the       *)
(* random values it draws, so a call is followed by the draws it makes:    *)
(* from a generator of its own (an explicit random_state) or from          *)
(* np.random, the generator all threads of the process share.              *)
(***************************************************************************)
MaxFits == 2       \* train_and_select_best calls per thread

RandomStates == {42, 7}

\* a value drawn from a generator: determined by its seed and its position
OwnDraw(random_state, at) == [gen |-> "own", seed |-> random_state, at |-> at]
SharedDraw(g) == [gen |-> "np.random", seed |-> g.seed, at |-> g.drawn]

\* the generator after one draw
Advanced(g) == [g EXCEPT !.drawn = g.drawn + 1]

\* np.random.seed(random_state)
Seed(t, random_state) ==
    /\ trainers[t].pc \in {"idle", "returned"}
    /\ trainers[t].calls < MaxFits
    /\ np_random' = [seed |-> random_state, drawn |-> 0]
    /\ trainers' = [trainers EXCEPT ![t] =
                       [pc |-> "seeded", calls |-> trainers[t].calls + 1,
                        random_state |-> random_state, draws |-> <<>>]]
    /\ UNCHANGED offFit

\* shuffled = node_df.sample(frac=1, random_state=random_state)
Shuffle(t) ==
    /\ trainers[t].pc = "seeded"
    /\ trainers' = [trainers EXCEPT
                      ![t].pc = "split",
                      ![t].draws = Append(@, OwnDraw(trainers[t].random_state, 0))]
    /\ UNCHANGED <<np_random, offFit>>

\* neg_test = sample_utils.get_neg_sample(x_test_raw, ..., do_permute=True)
NegSample(t) ==
    /\ trainers[t].pc = "split"
    /\ trainers' = [trainers EXCEPT
                      ![t].pc = "sampled",
                      ![t].draws = Append(@, SharedDraw(np_random))]
    /\ np_random' = Advanced(np_random)
    /\ UNCHANGED offFit

\* test_combined = pd.concat([pos_test, neg_test], ...).sample(frac=1)
EvalShuffle(t) ==
    /\ trainers[t].pc = "sampled"
    /\ trainers' = [trainers EXCEPT
                      ![t].pc = "evaluating",
                      ![t].draws = Append(@, SharedDraw(np_random))]
    /\ np_random' = Advanced(np_random)
    /\ UNCHANGED offFit

\* the loop over the variants: IsolationForestAd and the forest of
\* NegativeSamplingRandomForestAd draw from random_state, OneClassSVMAd draws
\* nothing, and NegativeSamplingRandomForestAd.train_model draws its negative
\* sample (sample_utils.apply_negative_sample) from np.random
FitVariants(t) ==
    /\ trainers[t].pc = "evaluating"
    /\ trainers' = [trainers EXCEPT
                      ![t].pc = "returned",
                      ![t].draws = @ \o <<OwnDraw(trainers[t].random_state, 1),
                                          SharedDraw(np_random),
                                          OwnDraw(trainers[t].random_state, 2)>>]
    /\ np_random' = Advanced(np_random)
    /\ UNCHANGED offFit

InitFit ==
    /\ db = <<>> /\ now = 0 /\ store = [g \in Gateways |-> EmptyDir]
    /\ runs = 0 /\ run = NoRun
    /\ StoreIdle /\ ScoreIdle /\ WebIdle /\ ArchiveIdle
    /\ FitIdle /\ DetectorIdle /\ QueryIdle

NextFit ==
    \/ \E t \in Trainers, random_state \in RandomStates : Seed(t, random_state)
    \/ \E t \in Trainers : Shuffle(t)
    \/ \E t \in Trainers : NegSample(t)
    \/ \E t \in Trainers : EvalShuffle(t)
    \/ \E t \in Trainers : FitVariants(t)

SpecFit == InitFit /\ [][NextFit]_vars

\* the draws of a call that runs with no other call beside it
DrawsAlone(random_state) ==
    <<OwnDraw(random_state, 0),
      [gen |-> "np.random", seed |-> random_state, at |-> 0],
      [gen |-> "np.random", seed |-> random_state, at |-> 1],
      OwnDraw(random_state, 1),
      [gen |-> "np.random", seed |-> random_state, at |-> 2],
      OwnDraw(random_state, 2)>>

\* C22 as claimed: a call of train_and_select_best makes the draws it makes
\* when it runs alone with that seed, whatever another thread's call does
\* meanwhile; so two calls with one matrix and one seed fit the same variants.
C22_DrawsIndependentOfOtherRuns ==
    \A t \in Trainers :
        trainers[t].pc = "returned" =>
            trainers[t].draws = DrawsAlone(trainers[t].random_state)

(***************************************************************************)
(* server.getdatausinggw: the readings of one node, thinned to about 300   *)
(* and set between two goalpost documents                                  *)
(***************************************************************************)
ThinOver == 300

empty_results == [results |-> <<"0">>]

\* strftime(timefmt) of a time moved from UTC to the zone asked for
HumanTime(time, utcoffset) == [text |-> TRUE, at |-> time + utcoffset]

\* skip = int(count / 300 + .49) when count > 300, else 0
Skip(count) ==
    IF count > ThinOver THEN (100 * count + 49 * ThinOver) \div (100 * ThinOver)
    ELSE 0

\* the document the loop emits for a reading
Emitted(doc, utcoffset) ==
    [value |-> cleanvalue(doc.value), human_time |-> HumanTime(doc.time, utcoffset),
     time |-> doc.time]

\* for doc in resultsarray: ct counts the readings since the last one
\* emitted and a reading is emitted when ct > skip, so the loop emits the
\* readings skip+1, 2(skip+1), ... and ends with ct = count mod (skip+1)
Thin(resultsarray, skip, utcoffset) ==
    [k \in 1..(Len(resultsarray) \div (skip + 1)) |->
        Emitted(resultsarray[k * (skip + 1)], utcoffset)]

\* if ct != 0: the last reading is emitted too (latestvalue is left as it is)
LastDoc(resultsarray, skip, utcoffset) ==
    IF Len(resultsarray) % (skip + 1) = 0 THEN <<>>
    ELSE <<Emitted(resultsarray[Len(resultsarray)], utcoffset)>>

\* the final goalpost: human_time is the timestamp itself, not a text
Goalpost(latestvalue, clock) ==
    [value |-> latestvalue, human_time |-> [text |-> FALSE, at |-> clock],
     time |-> clock]

\* the documents returned, or the ValueError of a value that is no number
Closed(first, thinned, tail, clock) ==
    IF \E i \in 1..Len(thinned \o tail) : (thinned \o tail)[i].value = ValueError
    THEN Raise("ValueError")
    ELSE Return(<<first>> \o thinned \o tail
                \o <<Goalpost(IF Len(thinned) = 0 THEN first.value
                              ELSE thinned[Len(thinned)].value, clock)>>)

\* resultsarray is the sorted result of the query; clock is the time at return
getdatausinggw(resultsarray, start, utcoffset, clock) ==
    LET count == Len(resultsarray)
        skip  == Skip(count)
    IN IF count = 0 THEN Return(empty_results)
       ELSE IF skip + 2 > count THEN Raise("IndexError")
       ELSE LET first == cleanvalue(resultsarray[skip + 2].value)
            IN IF first = ValueError THEN Raise("ValueError")
               ELSE Closed([value |-> first,
                            human_time |-> HumanTime(start, utcoffset),
                            time |-> start],
                           Thin(resultsarray, skip, utcoffset),
                           LastDoc(resultsarray, skip, utcoffset), clock)

(***************************************************************************)
(* SpecQuery: getdatausinggw on result sets of every size up to MaxCount    *)
(* and of sizes about and above 300                                        *)
(***************************************************************************)
MaxCount == 24     \* readings in a short result set

\* the clock at the call, and getstart(24): 24 hours before it
QueryClock == SecondsPerDay + SecondsPerDay \div 24
QueryStart == QueryClock - SecondsPerDay

\* the value of the i-th reading as the gateway stores it
StoredValue(i, quoted) ==
    LET digits == FormatInt(60 + (i % 7)) \o <<".">> \o FormatInt(i % 10)
    IN IF quoted THEN <<"b", "'">> \o digits \o <<"'">> ELSE digits

\* n readings of one node in time order
Readings(n, quoted) ==
    [i \in 1..n |-> [value |-> StoredValue(i, quoted), time |-> QueryStart + 60 * i]]

Counts == (0..MaxCount) \cup {ThinOver, ThinOver + 1, ThinOver + 2, 450, 454, 751}
UtcOffsets == {0, 0 - 18000}

QueryCalls ==
    {[pc |-> "called", resultsarray |-> Readings(c[1], c[2]), start |-> QueryStart,
      utcoffset |-> c[3], outcome |-> Pending] :
        c \in Counts \X BOOLEAN \X UtcOffsets}

GetDataUsingGw ==
    /\ query.pc = "called"
    /\ query' = [query EXCEPT
                   !.pc = "returned",
                   !.outcome = getdatausinggw(query.resultsarray, query.start,
                                              query.utcoffset, now)]
    /\ UNCHANGED <<now, offQuery>>

InitQuery ==
    /\ db = <<>> /\ now = QueryClock /\ store = [g \in Gateways |-> EmptyDir]
    /\ runs = 0 /\ run = NoRun
    /\ StoreIdle /\ ScoreIdle /\ WebIdle /\ ArchiveIdle
    /\ FitIdle /\ DetectorIdle
    /\ query \in QueryCalls

NextQuery == GetDataUsingGw

SpecQuery == InitQuery /\ [][NextQuery]_vars

\* C30 as claimed: a result set with at least one reading yields a list, no
\* error: first a goalpost at the start time, last a goalpost at the current
\* time with the value of the document emitted before it, and the last reading
\* of the result among the documents; only an empty result yields
\* {'results': '0'}.
C30_GoalpostsAroundEveryResult ==
    query.pc = "returned" =>
        IF Len(query.resultsarray) = 0 THEN query.outcome = Return(empty_results)
        ELSE /\ query.outcome.kind = "return"
             /\ query.outcome.value # empty_results
             /\ LET docs == query.outcome.value
                    last == query.resultsarray[Len(query.resultsarray)]
                IN /\ Len(docs) >= 3
                   /\ docs[1].time = query.start
                   /\ docs[Len(docs)].time = now
                   /\ docs[Len(docs)].value = docs[Len(docs) - 1].value
                   /\ \E i \in 2..(Len(docs) - 1) :
                         /\ docs[i].time = last.time
                         /\ docs[i].value = cleanvalue(last.value)

(***************************************************************************)
(* Detector variants: OneClassSVMAd and NegativeSamplingRandomForestAd.    *)
(* A frame is its column names and its rows, each row the cells of the     *)
(* columns in order.  What sklearn decides for a row is an input.          *)
(***************************************************************************)
Frame(columns, rows) == [columns |-> columns, rows |-> rows]

\* the position of column c in the frame
ColumnAt(df, c) == CHOOSE k \in 1..Len(df.columns) : df.columns[k] = c

\* df[c], top to bottom
Column(df, c) == [i \in 1..Len(df.rows) |-> df.rows[i][ColumnAt(df, c)]]

RECURSIVE SumSeq(_)
SumSeq(xs) == IF Len(xs) = 0 THEN 0 ELSE Head(xs) + SumSeq(Tail(xs))

\* the largest k with k * k <= n, for lo * lo <= n < hi * hi
RECURSIVE ISqrt(_, _, _)
ISqrt(n, lo, hi) ==
    IF hi - lo <= 1 THEN lo
    ELSE LET mid == (lo + hi) \div 2
         IN IF mid * mid <= n THEN ISqrt(n, mid, hi) ELSE ISqrt(n, lo, mid)

\* the mean of a column, in thousandths
MeanOf(xs) == (1000 * SumSeq(xs)) \div Len(xs)

\* the sample standard deviation of a column (NaN for a single row)
StdOf(xs) ==
    IF Len(xs) < 2 THEN NaN
    ELSE LET m == MeanOf(xs)
             squares == [i \in 1..Len(xs) |-> (1000 * xs[i] - m) * (1000 * xs[i] - m)]
         IN Float(ISqrt(SumSeq(squares) \div (Len(xs) - 1), 0, 46340))

\* sample_utils.get_normalization_info(x_train): mean and std of every column
get_normalization_info(x_train) ==
    [tag |-> "info", columns |-> x_train.columns,
     mean |-> [k \in 1..Len(x_train.columns) |->
                  MeanOf(Column(x_train, x_train.columns[k]))],
     std  |-> [k \in 1..Len(x_train.columns) |->
                  StdOf(Column(x_train, x_train.columns[k]))]]

\* sample_utils.get_column_order(normalization_info)
get_column_order(normalization_info) == normalization_info.columns

\* a column whose std is 0 or NaN normalizes to inf or NaN
Degenerate(normalization_info) ==
    \E k \in 1..Len(normalization_info.columns) :
        normalization_info.std[k].nan \/ normalization_info.std[k].milli = 0

\* sample_utils.normalize(df, info)[column_order]: (x - mean) / std, a new frame
normalize(df, normalization_info) ==
    Frame(normalization_info.columns,
          [i \in 1..Len(df.rows) |->
              [k \in 1..Len(normalization_info.columns) |->
                  ((1000 * df.rows[i][ColumnAt(df, normalization_info.columns[k])]
                        - normalization_info.mean[k]) * 1000)
                      \div normalization_info.std[k].milli]])

\* __init__: self._normalization_info = None; nothing fitted
NewDetector(variant) ==
    [pc |-> "ready", variant |-> variant, _normalization_info |-> None,
     fitted |-> None, calls |-> 0, last |-> [op |-> "__init__"]]

\* mutant: the statistics of the first train_model are kept
Frozen_Once(self, x_train) ==
    IF self._normalization_info = None
    THEN [self EXCEPT !._normalization_info = get_normalization_info(x_train)]
    ELSE self

\* self._normalization_info = sample_utils.get_normalization_info(x_train)
Frozen(self, x_train) ==
    [self EXCEPT !._normalization_info = get_normalization_info(x_train)]

\* train_model: the statistics are set, then sklearn's fit runs on the
\* normalized rows (ValueError on NaN or inf) and replaces what was fitted
train_model(self, x_train) ==
    LET frozen == Frozen(self, x_train)
    IN IF Degenerate(frozen._normalization_info)
       THEN [self |-> frozen, outcome |-> Raise("ValueError")]
       ELSE [self |-> [frozen EXCEPT
                          !.fitted = normalize(x_train, frozen._normalization_info)],
             outcome |-> Return(None)]

\* what sklearn answers for a row: predict of the one-class SVM (-1 outlier,
\* 1 inlier), predict_proba[:, 1] of the forest in thousandths
Decisions(variant) ==
    IF variant = "OneClassSVM" THEN {0 - 1, 1} ELSE {0, 350, 1000}

\* mutant: class_prob is the decision itself
OneClassProb_Raw(pred) == Float(1000 * pred)

\* np.where(preds == -1, 0, preds)
OneClassProb(pred) == Float(1000 * (IF pred = 0 - 1 THEN 0 ELSE pred))

\* preds[:, _NORMAL_CLASS]
ForestProb(proba) == Float(proba)

\* sample_df['class_prob'] = ...
WithClassProb(sample_df, class_prob) ==
    Frame(Append(sample_df.columns, "class_prob"),
          [i \in 1..Len(sample_df.rows) |-> Append(sample_df.rows[i], class_prob[i])])

\* predict: normalize with the frozen statistics, take the frozen columns,
\* ask sklearn, attach class_prob to the frame given and return it
predict(self, sample_df, preds) ==
    IF self._normalization_info = None THEN Raise("TypeError")
    ELSE IF ~(SeqToSet(get_column_order(self._normalization_info))
                 \subseteq SeqToSet(sample_df.columns))
    THEN Raise("KeyError")
    ELSE IF self.fitted = None THEN Raise("NotFittedError")
    ELSE IF Len(sample_df.rows) = 0 \/ Degenerate(self._normalization_info)
    THEN Raise("ValueError")
    ELSE Return(WithClassProb(sample_df,
                    [i \in 1..Len(sample_df.rows) |->
                        IF self.variant = "OneClassSVM"
                        THEN OneClassProb(preds[i]) ELSE ForestProb(preds[i])]))

(***************************************************************************)
(* SpecDetector: train_model and predict called on one detector object     *)
(***************************************************************************)
MaxCalls == 3      \* train_model and predict calls on the detector
MaxSamples == 2    \* rows of a frame given to predict

Variants == {"OneClassSVM", "NS-RandomForest"}

\* training frames: two that differ in columns, order and values, one with a
\* constant column, one with a single row
TrainFrames ==
    {Frame(<<"F", "H">>, <<<<1, 4>>, <<3, 2>>>>),
     Frame(<<"H", "F">>, <<<<2, 1>>, <<4, 5>>, <<6, 3>>>>),
     Frame(<<"F", "H">>, <<<<1, 2>>, <<1, 4>>>>),
     Frame(<<"F", "H">>, <<<<1, 2>>>>)}

\* frames to predict on: the trained columns, an extra column, a column
\* missing; none to MaxSamples rows
SampleRow(columns, i) ==
    [k \in 1..Len(columns) |-> IF columns[k] = "node" THEN 7 ELSE 2 * i + k]
SampleFrames ==
    {Frame(columns, [i \in 1..n |-> SampleRow(columns, i)]) :
        columns \in {<<"F", "H">>, <<"node", "H", "F">>, <<"F">>},
        n \in 0..MaxSamples}

TrainModel(x_train) ==
    /\ detector.pc = "ready"
    /\ detector.calls < MaxCalls
    /\ LET t == train_model(detector, x_train)
       IN detector' = [t.self EXCEPT
                         !.calls = detector.calls + 1,
                         !.last = [op |-> "train_model", arg |-> x_train,
                                   before |-> detector._normalization_info,
                                   outcome |-> t.outcome]]
    /\ UNCHANGED offDetector

\* sklearn's answers for frames of up to MaxSamples rows
SamplePreds ==
    UNION {[1..n -> Decisions(variant)] : n \in 0..MaxSamples, variant \in Variants}

Predict(sample_df, preds) ==
    /\ detector.pc = "ready"
    /\ detector.calls < MaxCalls
    /\ Len(preds) = Len(sample_df.rows)
    /\ \A i \in 1..Len(preds) : preds[i] \in Decisions(detector.variant)
    /\ detector' = [detector EXCEPT
                      !.calls = detector.calls + 1,
                      !.last = [op |-> "predict", arg |-> sample_df,
                                before |-> detector._normalization_info,
                                preds |-> preds,
                                outcome |-> predict(detector, sample_df, preds)]]
    /\ UNCHANGED offDetector

InitDetector ==
    /\ db = <<>> /\ now = 0 /\ store = [g \in Gateways |-> EmptyDir]
    /\ runs = 0 /\ run = NoRun
    /\ StoreIdle /\ ScoreIdle /\ WebIdle /\ ArchiveIdle
    /\ FitIdle /\ QueryIdle
    /\ \E variant \in Variants : detector = NewDetector(variant)

NextDetector ==
    \/ \E x_train \in TrainFrames : TrainModel(x_train)
    \/ \E sample_df \in SampleFrames, preds \in SamplePreds :
          Predict(sample_df, preds)

SpecDetector == InitDetector /\ [][NextDetector]_vars

(***************************************************************************)
(* Detector properties                                                     *)
(***************************************************************************)
\* the last call was a predict that returned a frame
Predicted ==
    /\ detector.pc = "ready"
    /\ detector.last.op = "predict"
    /\ detector.last.outcome.kind = "return"

\* the cell of row i under column c
CellOf(df, i, c) == df.rows[i][ColumnAt(df, c)]

\* C26: a predict of the one-class SVM or of the negative-sampling forest
\* that returns gives back as many rows as it was given, each with a class_prob
\* between 0 and 1 (for the SVM exactly 0 or 1, 0 where sklearn decided -1),
\* and with every other column and cell as it was given.
C26_ClassProbAttachedRowsKept ==
    Predicted =>
        LET given == detector.last.arg
            out   == detector.last.outcome.value
        IN /\ Len(out.rows) = Len(given.rows)
           /\ SelectSeq(out.columns, LAMBDA c : c # "class_prob") = given.columns
           /\ \A i \in 1..Len(out.rows) :
                 LET p == CellOf(out, i, "class_prob")
                 IN /\ ~p.nan /\ 0 <= p.milli /\ p.milli <= 1000
                    /\ detector.variant = "OneClassSVM" =>
                          /\ p.milli \in {0, 1000}
                          /\ (detector.last.preds[i] = 0 - 1) <=> (p.milli = 0)
                    /\ \A c \in SeqToSet(given.columns) :
                          CellOf(out, i, c) = CellOf(given, i, c)

\* the SVM called an outlier and an inlier in a frame with an extra column
C26_Witness ==
    /\ Predicted
    /\ detector.variant = "OneClassSVM"
    /\ detector.last.arg.columns = <<"node", "H", "F">>
    /\ detector.last.preds = <<0 - 1, 1>>
    /\ CellOf(detector.last.outcome.value, 1, "class_prob") = Float(0)
    /\ CellOf(detector.last.outcome.value, 2, "class_prob") = Float(1000)

\* C27: predict leaves the detector's column order and normalization
\* statistics as they were, whether it returns or raises; train_model sets
\* them to the statistics of the rows it was given, with nothing of the
\* earlier ones left; so a predict uses the statistics of the latest train.
C27_StatisticsSetOnlyByTrain ==
    /\ (detector.pc = "ready" /\ detector.last.op = "predict") =>
          detector._normalization_info = detector.last.before
    /\ (detector.pc = "ready" /\ detector.last.op = "train_model") =>
          /\ detector._normalization_info
                 = get_normalization_info(detector.last.arg)
          /\ get_column_order(detector._normalization_info)
                 = detector.last.arg.columns

\* a train_model that fitted, on a detector that held the statistics of an
\* earlier train_model with another column order
C27_Witness ==
    /\ detector.pc = "ready"
    /\ detector.calls = MaxCalls
    /\ detector.last.op = "train_model"
    /\ detector.last.before # None
    /\ detector.last.before # detector._normalization_info
    /\ detector.last.before.columns # detector._normalization_info.columns
    /\ detector.last.outcome.kind = "return"
====
